---- MODULE Spec2Model ----
(***************************************************************************)
(* A model of hypnagogic's bitmask tile-corner engine: the Adjacency       *)
(* bitset, the corner and direction tables, frame deduplication, the       *)
(* Slice operation and the Reconstruct operation.                          *)
(*                                                                         *)
(* Images are functions from pixel coordinates to colours; colour 0 is a   *)
(* fully transparent pixel.  Text is a sequence of one-character strings.  *)
(* f32 delays are modelled by the integers they hold.                      *)
(***************************************************************************)
EXTENDS Integers, Sequences, FiniteSets, TLC

VARIABLES
    calls,      \* the pure-function calls made so far, each [fn, arg, ret]
    operation,  \* the IconOperationConfig being performed: [kind, self]
    input,      \* its InputIcon: a decoded image or a decoded icon
    mode,       \* its OperationMode
    pc,         \* how far perform_operation has run
    locals,     \* what perform_operation has built so far
    result,     \* what perform_operation returned
    history     \* the operations completed before this one, each [operation, input, result]

opvars == <<operation, input, mode, pc, locals, result, history>>
vars == <<calls, operation, input, mode, pc, locals, result, history>>

-----------------------------------------------------------------------------
(* Bit arithmetic on u16 bitflags                                          *)

Bit(a, i) == (a \div (2 ^ i)) % 2

BitsOf(a) == {i \in 0..9 : Bit(a, i) = 1}

RECURSIVE PackBits(_)
PackBits(S) ==
    IF S = {} THEN 0
    ELSE LET i == CHOOSE j \in S : TRUE IN (2 ^ i) + PackBits(S \ {i})

contains(self, other) == BitsOf(other) \subseteq BitsOf(self)
intersects(self, other) == BitsOf(other) \cap BitsOf(self) # {}
difference(self, other) == PackBits(BitsOf(self) \ BitsOf(other))
union(self, other) == PackBits(BitsOf(self) \cup BitsOf(other))

-----------------------------------------------------------------------------
(* util/adjacency.rs: the Adjacency flags                                  *)

N == 1
S == 2
E == 4
W == 8
NE == 16
SE == 32
SW == 64
NW == 128
INNER_EDGE == 256
OUTER_EDGE == 512
EDGES == union(INNER_EDGE, OUTER_EDGE)
CARDINALS == PackBits(BitsOf(N) \cup BitsOf(S) \cup BitsOf(E) \cup BitsOf(W))

\* from_bits accepts exactly the patterns over the ten known bits
AllAdjacencies == 0..1023

\* An operation that ends in panic!/unimplemented!/unwrap on None
Panic == -1

\* from_bits: None (here Panic once unwrapped) for a pattern with unknown bits
from_bits(bits) == IF bits \in AllAdjacencies THEN bits ELSE Panic

Sides == {"North", "South", "East", "West"}
Corners == {"NorthEast", "SouthEast", "SouthWest", "NorthWest"}
\* enum_iterator::all::<Corner>() walks the variants in declaration order
CornerSeq == <<"NorthEast", "SouthEast", "SouthWest", "NorthWest">>

diagonals == <<NE, SE, SW, NW>>

from_corner(corner) ==
    CASE corner = "NorthEast" -> NE
      [] corner = "SouthEast" -> SE
      [] corner = "SouthWest" -> SW
      [] corner = "NorthWest" -> NW

\* (vertical, horizontal) of a corner adjacency; Panic for anything else
corner_sides(self) ==
    LET d == difference(self, EDGES) IN
    CASE d = NE -> <<N, E>>
      [] d = SE -> <<S, E>>
      [] d = SW -> <<S, W>>
      [] d = NW -> <<N, W>>
      [] OTHER -> <<Panic, Panic>>

\* adjacent_corners_filled satisfied by one side alone
adjacent_corners_filled_either(self, corner) ==
    LET sides == corner_sides(corner) IN
    contains(self, sides[1]) \/ contains(self, sides[2])

adjacent_corners_filled(self, corner) ==
    LET sides == corner_sides(corner) IN
    contains(self, sides[1]) /\ contains(self, sides[2])

has_no_orphaned_corner(self) ==
    IF contains(self, diagonals[1]) /\ ~adjacent_corners_filled(self, diagonals[1])
    THEN FALSE
    ELSE IF contains(self, diagonals[2]) /\ ~adjacent_corners_filled(self, diagonals[2])
    THEN FALSE
    ELSE IF contains(self, diagonals[3]) /\ ~adjacent_corners_filled(self, diagonals[3])
    THEN FALSE
    ELSE IF contains(self, diagonals[4]) /\ ~adjacent_corners_filled(self, diagonals[4])
    THEN FALSE
    ELSE TRUE

diagonal_cardinals == <<union(N, E), union(S, E), union(S, W), union(N, W)>>

filled_diagonals ==
    [i \in 1..4 |->
        LET sides == corner_sides(diagonals[i]) IN
        union(union(diagonals[i], sides[1]), sides[2])]

FlagOrder == <<N, S, E, W, NE, SE, SW, NW, INNER_EDGE, OUTER_EDGE>>

set_flags_vec(self) == SelectSeq(FlagOrder, LAMBDA a : contains(self, a))

\* get_corner_type with the Vertical and Horizontal answers exchanged
get_corner_type_sides_swapped(self, corner) ==
    LET adj_corner == from_corner(corner)
        vertical == corner_sides(adj_corner)[1]
        horizontal == corner_sides(adj_corner)[2]
    IN
    IF intersects(self, EDGES) THEN
        LET d == difference(self, EDGES) IN
        CASE d = union(S, E) -> "BottomRightInner"
          [] d = union(S, W) -> "BottomLeftInner"
          [] d = union(N, E) -> "TopRightInner"
          [] d = union(N, W) -> "TopLeftInner"
          [] d = union(union(S, E), SE) -> "BottomRightOuter"
          [] d = union(union(S, W), SW) -> "BottomLeftOuter"
          [] d = union(union(N, E), NE) -> "TopRightOuter"
          [] d = union(union(N, W), NW) -> "TopLeftOuter"
          [] OTHER -> "Convex"
    ELSE IF contains(self, vertical) /\ contains(self, horizontal) THEN
        IF contains(self, adj_corner) THEN "Flat" ELSE "Concave"
    ELSE IF contains(self, vertical) THEN "Horizontal"
    ELSE IF contains(self, horizontal) THEN "Vertical"
    ELSE "Convex"

\* get_corner_type without the arms of the filled diagonals
get_corner_type_no_outer(self, corner) ==
    LET adj_corner == from_corner(corner)
        vertical == corner_sides(adj_corner)[1]
        horizontal == corner_sides(adj_corner)[2]
    IN
    IF intersects(self, EDGES) THEN
        LET d == difference(self, EDGES) IN
        CASE d = union(S, E) -> "BottomRightInner"
          [] d = union(S, W) -> "BottomLeftInner"
          [] d = union(N, E) -> "TopRightInner"
          [] d = union(N, W) -> "TopLeftInner"
          [] OTHER -> "Convex"
    ELSE IF contains(self, vertical) /\ contains(self, horizontal) THEN
        IF contains(self, adj_corner) THEN "Flat" ELSE "Concave"
    ELSE IF contains(self, vertical) THEN "Vertical"
    ELSE IF contains(self, horizontal) THEN "Horizontal"
    ELSE "Convex"

get_corner_type(self, corner) ==
    LET adj_corner == from_corner(corner)
        vertical == corner_sides(adj_corner)[1]
        horizontal == corner_sides(adj_corner)[2]
    IN
    IF intersects(self, EDGES) THEN
        LET d == difference(self, EDGES) IN
        CASE d = union(S, E) -> "BottomRightInner"
          [] d = union(S, W) -> "BottomLeftInner"
          [] d = union(N, E) -> "TopRightInner"
          [] d = union(N, W) -> "TopLeftInner"
          [] d = union(union(S, E), SE) -> "BottomRightOuter"
          [] d = union(union(S, W), SW) -> "BottomLeftOuter"
          [] d = union(union(N, E), NE) -> "TopRightOuter"
          [] d = union(union(N, W), NW) -> "TopLeftOuter"
          [] OTHER -> "Convex"
    ELSE IF contains(self, vertical) /\ contains(self, horizontal) THEN
        IF contains(self, adj_corner) THEN "Flat" ELSE "Concave"
    ELSE IF contains(self, vertical) THEN "Vertical"
    ELSE IF contains(self, horizontal) THEN "Horizontal"
    ELSE "Convex"

-----------------------------------------------------------------------------
(* Text: a String is a sequence of one-character strings                   *)

DigitChars == <<"0", "1", "2", "3", "4", "5", "6", "7", "8", "9">>

RECURSIVE to_string(_)
to_string(n) ==
    IF n < 10 THEN <<DigitChars[n + 1]>>
    ELSE to_string(n \div 10) \o <<DigitChars[(n % 10) + 1]>>

DigitValue(c) == (CHOOSE i \in 1..10 : DigitChars[i] = c) - 1
IsDigit(c) == \E i \in 1..10 : DigitChars[i] = c

\* str::find of a one-character pattern: 0-based index of its first
\* occurrence, or -1 (None)
find(text, c) ==
    IF \E i \in 1..Len(text) : text[i] = c
    THEN (CHOOSE i \in 1..Len(text) :
              text[i] = c /\ \A j \in 1..(i - 1) : text[j] # c) - 1
    ELSE -1

\* String::remove at a 0-based index that is in range
remove(text, idx) ==
    [i \in 1..(Len(text) - 1) |-> IF i <= idx THEN text[i] ELSE text[i + 1]]

RECURSIVE DigitsValue(_)
DigitsValue(ds) ==
    IF Len(ds) = 0 THEN 0
    ELSE 10 * DigitsValue(SubSeq(ds, 1, Len(ds) - 1)) + DigitValue(ds[Len(ds)])

U16Max == 65535
ParseError == -3

\* str::parse::<u16>: an optional '+', then one or more digits, at most u16::MAX
parse_u16(text) ==
    LET ds == IF Len(text) > 0 /\ text[1] = "+" THEN Tail(text) ELSE text IN
    IF Len(ds) = 0 \/ \E i \in 1..Len(ds) : ~IsDigit(ds[i]) THEN ParseError
    ELSE IF DigitsValue(ds) > U16Max THEN ParseError
    ELSE DigitsValue(ds)

InvalidAdjacencyError == -2

\* impl FromStr for Adjacency: an Adjacency, InvalidAdjacencyError, or Panic
from_str(text) ==
    LET d_location == find(text, "d") IN
    IF d_location = 0 THEN Panic             \* remove(d_location - 1) underflows
    ELSE
        LET parsing_text ==
                IF d_location > 0 THEN remove(remove(text, d_location), d_location - 1)
                ELSE text
            parsed_bytes == parse_u16(parsing_text)
        IN
        IF parsed_bytes = ParseError THEN InvalidAdjacencyError
        ELSE IF parsed_bytes \in AllAdjacencies THEN parsed_bytes
        ELSE InvalidAdjacencyError

pretty_print(self) ==
    LET number_bits == difference(self, EDGES)
        pretty_string == to_string(number_bits)
    IN
    IF intersects(self, EDGES) THEN pretty_string \o <<"-", "d">> ELSE pretty_string

-----------------------------------------------------------------------------
(* util/directions.rs                                                      *)

Directions == {"N", "S", "E", "W", "NE", "SE", "SW", "NW"}
STANDARD == "S"
dmi_cardinals == <<"S", "N", "E", "W">>
dmi_all == <<"S", "N", "E", "W", "SE", "SW", "NE", "NW">>

DirectionStrategies == {"Standard", "Cardinals", "CardinalsRotated", "All"}

\* count_to_strategy answering the rotated strategy for four directions
count_to_strategy_rotated(count) ==
    CASE count = 1 -> "Standard"
      [] count = 4 -> "CardinalsRotated"
      [] count = 8 -> "All"
      [] OTHER -> "None"

count_to_strategy(count) ==
    CASE count = 1 -> "Standard"
      [] count = 4 -> "Cardinals"
      [] count = 8 -> "All"
      [] OTHER -> "None"

input_vec(strategy) ==
    CASE strategy = "Standard" -> <<STANDARD>>
      [] strategy = "Cardinals" -> dmi_cardinals
      [] strategy = "CardinalsRotated" -> <<STANDARD>>
      [] strategy = "All" -> dmi_all

output_vec(strategy) ==
    CASE strategy = "CardinalsRotated" -> dmi_cardinals
      [] OTHER -> input_vec(strategy)

\* input_positions: the index of a direction in input_vec, 0-based
input_positions(strategy, direction) ==
    (CHOOSE i \in 1..Len(input_vec(strategy)) : input_vec(strategy)[i] = direction) - 1

rotate_dir(self, direction) ==
    CASE direction = "N" ->
            (CASE self = N -> S
               [] self = S -> N
               [] self = E -> W
               [] self = W -> E
               [] self = NE -> SW
               [] self = SE -> NW
               [] self = SW -> NE
               [] self = NW -> SE
               [] OTHER -> Panic)
      [] direction = "S" -> self
      [] direction = "E" ->
            (CASE self = N -> W
               [] self = S -> E
               [] self = E -> N
               [] self = W -> S
               [] self = NE -> NW
               [] self = SE -> NE
               [] self = SW -> SE
               [] self = NW -> SW
               [] OTHER -> Panic)
      [] direction = "W" ->
            (CASE self = N -> E
               [] self = S -> W
               [] self = E -> S
               [] self = W -> N
               [] self = NE -> SE
               [] self = SE -> SW
               [] self = SW -> NW
               [] self = NW -> NE
               [] OTHER -> Panic)
      [] OTHER -> Panic

rotate_to(self, direction) ==
    LET flags == set_flags_vec(self)
        rotated == [i \in 1..Len(flags) |-> rotate_dir(flags[i], direction)]
    IN
    IF Len(flags) = 0 THEN self
    ELSE IF \E i \in 1..Len(flags) : rotated[i] = Panic THEN Panic
    ELSE PackBits(UNION {BitsOf(rotated[i]) : i \in 1..Len(flags)})

rotate_adjacency(strategy, adjacency, direction) ==
    IF strategy = "CardinalsRotated" THEN rotate_to(adjacency, direction) ELSE adjacency

-----------------------------------------------------------------------------
(* util/corners.rs                                                         *)

CornerSets == {"Cardinal", "StandardDiagonal", "CornerDiagonal"}

CornerTypes ==
    {"Convex", "Concave", "Horizontal", "Vertical", "Flat",
     "BottomRightInner", "BottomLeftInner", "TopRightInner", "TopLeftInner",
     "BottomRightOuter", "BottomLeftOuter", "TopRightOuter", "TopLeftOuter"}

\* (horizontal, vertical)
sides_of_corner(corner) ==
    CASE corner = "NorthEast" -> <<"East", "North">>
      [] corner = "SouthEast" -> <<"East", "South">>
      [] corner = "SouthWest" -> <<"West", "South">>
      [] corner = "NorthWest" -> <<"West", "North">>

side_byond_dir(side) ==
    CASE side = "North" -> 1
      [] side = "South" -> 2
      [] side = "East" -> 4
      [] side = "West" -> 8

side_dmi_cardinals == <<"South", "North", "East", "West">>

is_vertical(side) == side \in {"North", "South"}

corner_byond_dir(corner) ==
    side_byond_dir(sides_of_corner(corner)[1]) + side_byond_dir(sides_of_corner(corner)[2])

possible_bit_states(output_type) ==
    CASE output_type = "Cardinal" -> 2 ^ 4
      [] output_type = "StandardDiagonal" -> 2 ^ 8
      [] output_type = "CornerDiagonal" -> 2 ^ 8

InSeq(seq, x) == \E i \in 1..Len(seq) : seq[i] = x

\* The closure without its branch for the filled diagonals
ExpandAdjacency_inner_only(bits) ==
    LET adjacency == from_bits(bits) IN
    IF InSeq(diagonal_cardinals, adjacency)
    THEN <<adjacency, union(adjacency, INNER_EDGE)>>
    ELSE <<adjacency>>

\* The closure of output_adjacencies' flat_map for one value of bits
ExpandAdjacency(bits) ==
    LET adjacency == from_bits(bits) IN
    IF InSeq(diagonal_cardinals, adjacency)
    THEN <<adjacency, union(adjacency, INNER_EDGE)>>
    ELSE IF InSeq(filled_diagonals, adjacency)
    THEN <<adjacency, union(adjacency, OUTER_EDGE)>>
    ELSE <<adjacency>>

\* flat_map over the range lo..(hi - 1), in order
RECURSIVE FlatMapAdjacencies(_, _)
FlatMapAdjacencies(lo, hi) ==
    IF hi <= lo THEN <<>>
    ELSE IF hi = lo + 1 THEN ExpandAdjacency(lo)
    ELSE LET mid == (lo + hi) \div 2 IN
         FlatMapAdjacencies(lo, mid) \o FlatMapAdjacencies(mid, hi)

CornerDiagonalAdjacencies == FlatMapAdjacencies(0, possible_bit_states("CornerDiagonal"))

output_adjacencies(output_type) ==
    IF output_type = "CornerDiagonal" THEN CornerDiagonalAdjacencies
    ELSE [i \in 1..possible_bit_states(output_type) |-> from_bits(i - 1)]

\* corners_used with Flat left out of StandardDiagonal
corners_used_no_flat(output_type) ==
    CASE output_type = "Cardinal" ->
            <<"Convex", "Concave", "Horizontal", "Vertical">>
      [] output_type = "StandardDiagonal" ->
            <<"Convex", "Concave", "Horizontal", "Vertical">>
      [] output_type = "CornerDiagonal" ->
            <<"Convex", "Concave", "Horizontal", "Vertical", "Flat",
              "BottomRightInner", "BottomLeftInner", "TopRightInner", "TopLeftInner",
              "BottomRightOuter", "BottomLeftOuter", "TopRightOuter", "TopLeftOuter">>

corners_used(output_type) ==
    CASE output_type = "Cardinal" ->
            <<"Convex", "Concave", "Horizontal", "Vertical">>
      [] output_type = "StandardDiagonal" ->
            <<"Convex", "Concave", "Horizontal", "Vertical", "Flat">>
      [] output_type = "CornerDiagonal" ->
            <<"Convex", "Concave", "Horizontal", "Vertical", "Flat",
              "BottomRightInner", "BottomLeftInner", "TopRightInner", "TopLeftInner",
              "BottomRightOuter", "BottomLeftOuter", "TopRightOuter", "TopLeftOuter">>

-----------------------------------------------------------------------------
(* util/icon_ops.rs: dedupe_frames                                         *)
(* An IconState is [name, dirs, frames, images, delay, rewind]; delay is   *)
(* an Option: [some |-> TRUE, v |-> <<..>>] or NoDelay.                    *)

NoDelay == [some |-> FALSE, v |-> <<>>]
SomeDelay(ds) == [some |-> TRUE, v |-> ds]

Min(a, b) == IF a < b THEN a ELSE b
Max(a, b) == IF a > b THEN a ELSE b

RECURSIVE Flatten(_)
Flatten(seqs) ==
    IF Len(seqs) = 0 THEN <<>> ELSE Head(seqs) \o Flatten(Tail(seqs))

RECURSIVE SumSeq(_)
SumSeq(seq) == IF Len(seq) = 0 THEN 0 ELSE Head(seq) + SumSeq(Tail(seq))

\* slice::chunks_exact: the full chunks only, a short remainder is left out
chunks_exact(images, n) ==
    [k \in 1..(Len(images) \div n) |-> SubSeq(images, (k - 1) * n + 1, k * n)]

\* slice::chunks: the last chunk may be short
chunks(images, n) ==
    [k \in 1..((Len(images) + n - 1) \div n) |->
        SubSeq(images, (k - 1) * n + 1, Min(k * n, Len(images)))]

\* DedupeStep with the early return after folding the delay left out: the
\* duplicate's frames are dropped but its delay is pushed as well
DedupeStep_delay_pushed(acc, current_delay, images) ==
    IF acc.current_frame # 0 /\ acc.frames[acc.current_frame] = images
    THEN [acc EXCEPT !.delays = Append(
              [acc.delays EXCEPT ![acc.current_frame] = @ + current_delay], current_delay)]
    ELSE [delays |-> Append(acc.delays, current_delay),
          frames |-> Append(acc.frames, images),
          current_frame |-> acc.current_frame + 1]

\* DedupeStep with the duplicate's delay assigned instead of added
DedupeStep_delay_assigned(acc, current_delay, images) ==
    IF acc.current_frame # 0 /\ acc.frames[acc.current_frame] = images
    THEN [acc EXCEPT !.delays[acc.current_frame] = current_delay]
    ELSE [delays |-> Append(acc.delays, current_delay),
          frames |-> Append(acc.frames, images),
          current_frame |-> acc.current_frame + 1]

\* The closure dedupe_frames folds over (delay, frame group) pairs
DedupeStep(acc, current_delay, images) ==
    IF acc.current_frame # 0 /\ acc.frames[acc.current_frame] = images
    THEN [acc EXCEPT !.delays[acc.current_frame] = @ + current_delay]
    ELSE [delays |-> Append(acc.delays, current_delay),
          frames |-> Append(acc.frames, images),
          current_frame |-> acc.current_frame + 1]

RECURSIVE DedupeFold(_, _, _, _)
DedupeFold(acc, current_delays, delay_bucket, k) ==
    IF k > Min(Len(current_delays), Len(delay_bucket)) THEN acc
    ELSE DedupeFold(DedupeStep(acc, current_delays[k], delay_bucket[k]),
                    current_delays, delay_bucket, k + 1)

dedupe_frames(icon_state) ==
    IF icon_state.frames <= 1 THEN icon_state
    ELSE IF ~icon_state.delay.some THEN icon_state
    ELSE
        LET delay_bucket == chunks_exact(icon_state.images, icon_state.dirs)
            deduped_anim ==
                DedupeFold([delays |-> <<>>, frames |-> <<>>, current_frame |-> 0],
                           icon_state.delay.v, delay_bucket, 1)
        IN [icon_state EXCEPT
                !.frames = deduped_anim.current_frame,
                !.images = Flatten(deduped_anim.frames),
                !.delay = SomeDelay(deduped_anim.delays)]

-----------------------------------------------------------------------------
(* The adjacency and direction functions, applied to inputs drawn from     *)
(* bounded sets.  A second call may take the first call's result.          *)

SingleBits == {FlagOrder[i] : i \in 1..Len(FlagOrder)}

Call(fn, arg, ret) ==
    /\ calls' = Append(calls, [fn |-> fn, arg |-> arg, ret |-> ret])
    /\ UNCHANGED opvars

First == Len(calls) = 0

Chained(fn) == Len(calls) = 1 /\ calls[1].fn = fn

CallRotateDir ==
    \E d \in Directions :
        \/ /\ First
           /\ \E a \in SingleBits \cup {0, CARDINALS} :
                  Call("rotate_dir", <<a, d>>, rotate_dir(a, d))
        \/ /\ Chained("rotate_dir")
           /\ calls[1].ret # Panic
           /\ Call("rotate_dir", <<calls[1].ret, d>>, rotate_dir(calls[1].ret, d))

CallGetCornerType ==
    /\ First
    /\ \E a \in AllAdjacencies, c \in Corners :
           Call("get_corner_type", <<a, c>>, get_corner_type(a, c))

CallCountToStrategy ==
    \/ /\ First
       /\ \E count \in 0..255 :
              Call("count_to_strategy", <<count>>, count_to_strategy(count))
    \/ /\ Chained("output_vec")
       /\ Call("count_to_strategy", <<Len(calls[1].ret)>>,
                count_to_strategy(Len(calls[1].ret)))

CallOutputVec ==
    /\ First
    /\ \E strategy \in DirectionStrategies :
           Call("output_vec", <<strategy>>, output_vec(strategy))

\* No operation is being performed
NoOperation == [kind |-> "none"]
NoInput == [kind |-> "none"]
NoLocals == [at |-> "none"]
NoResult == [tag |-> "None"]

Idle ==
    /\ operation = NoOperation
    /\ input = NoInput
    /\ mode = "Standard"
    /\ pc = "idle"
    /\ locals = NoLocals
    /\ result = NoResult
    /\ history = <<>>

InitAdj == calls = <<>> /\ Idle

NextAdj ==
    \/ CallRotateDir
    \/ CallGetCornerType
    \/ CallCountToStrategy
    \/ CallOutputVec

SpecAdj == InitAdj /\ [][NextAdj]_vars

-----------------------------------------------------------------------------
\* C5: every corner type that get_corner_type gives for an adjacency of
\* output_type.output_adjacencies() is one of output_type.corners_used(),
\* so generate_icons finds it in the corner library.
C5_CornerTypeUsed ==
    \A i \in 1..Len(calls) :
        calls[i].fn = "get_corner_type" =>
            \A output_type \in CornerSets :
                InSeq(output_adjacencies(output_type), calls[i].arg[1]) =>
                    InSeq(corners_used(output_type), calls[i].ret)

\* get_corner_type was applied to an edge adjacency of CornerDiagonal,
\* N|E with INNER_EDGE, and gave the inner type of its corner
C5_Witness ==
    /\ Len(calls) = 1
    /\ calls[1].fn = "get_corner_type"
    /\ calls[1].arg[1] = union(union(N, E), INNER_EDGE)
    /\ calls[1].ret = "TopRightInner"

\* C6: for every single-bit Adjacency a, rotate_dir(S) is the identity,
\* rotate_dir(N) twice is the identity and rotate_dir(E) then rotate_dir(W)
\* is the identity (so each of these rotations is defined on a).
C6_RotateDirSingleBits ==
    (Len(calls) >= 1 /\ calls[1].fn = "rotate_dir" /\ calls[1].arg[1] \in SingleBits) =>
        /\ calls[1].arg[2] = "S" => calls[1].ret = calls[1].arg[1]
        /\ calls[1].arg[2] \in {"N", "E"} => calls[1].ret # Panic
        /\ (Len(calls) = 2 /\ calls[1].arg[2] = "N" /\ calls[2].arg[2] = "N") =>
               calls[2].ret = calls[1].arg[1]
        /\ (Len(calls) = 2 /\ calls[1].arg[2] = "E" /\ calls[2].arg[2] = "W") =>
               calls[2].ret = calls[1].arg[1]

\* C9: count_to_strategy of the length of output_vec gives the strategy back
\* for Standard, Cardinals and All, gives Cardinals for CardinalsRotated, and
\* count_to_strategy is None for every count other than 1, 4 and 8.
C9_CountToStrategy ==
    /\ (Len(calls) = 2 /\ calls[1].fn = "output_vec" /\ calls[2].fn = "count_to_strategy") =>
           calls[2].ret = IF calls[1].arg[1] = "CardinalsRotated" THEN "Cardinals"
                          ELSE calls[1].arg[1]
    /\ (Len(calls) = 1 /\ calls[1].fn = "count_to_strategy"
           /\ calls[1].arg[1] \notin {1, 4, 8}) => calls[1].ret = "None"

\* count_to_strategy was applied to the four output directions of
\* CardinalsRotated
C9_Witness ==
    /\ Len(calls) = 2
    /\ calls[1].fn = "output_vec"
    /\ calls[1].arg[1] = "CardinalsRotated"
    /\ calls[2].fn = "count_to_strategy"
    /\ calls[2].arg[1] = 4

-----------------------------------------------------------------------------
(* dedupe_frames applied to icon states drawn from bounded sets, and then  *)
(* to its own result.  Images are named by small numbers; two images are   *)
(* equal when they have the same pixels, here the same number.             *)

MaxDedupeFrames == 4
DedupeDirs == {1, 2}
DelayValues == {1, 2}

\* The frame groups tried for a state of d directions
GroupValues(d) == IF d = 1 THEN {<<1>>, <<2>>} ELSE {<<1, 1>>, <<1, 2>>}

Near(f) == {k \in {f - 1, f, f + 1} : 0 <= k /\ k <= MaxDedupeFrames}

\* Icon states that declare f frames and hold f groups and f delays, or one
\* more or one fewer of either, with or without a trailing partial group
DedupeInputs ==
    UNION {
        {[name |-> <<"0">>, dirs |-> d, frames |-> f,
          images |-> Flatten(groups) \o tail,
          delay |-> dl, rewind |-> FALSE] :
            groups \in UNION {[1..g -> GroupValues(d)] : g \in Near(f)},
            tail \in IF d = 1 THEN {<<>>} ELSE {<<>>, <<1>>},
            dl \in {NoDelay} \cup
                   {SomeDelay(x) : x \in UNION {[1..h -> DelayValues] : h \in Near(f)}}}
        : d \in DedupeDirs, f \in 0..MaxDedupeFrames}

CallDedupeFrames ==
    \/ /\ First
       /\ \E icon_state \in DedupeInputs :
              Call("dedupe_frames", <<icon_state>>, dedupe_frames(icon_state))
    \/ /\ Chained("dedupe_frames")
       /\ Call("dedupe_frames", <<calls[1].ret>>, dedupe_frames(calls[1].ret))

NextDedupe == CallDedupeFrames

SpecDedupe == InitAdj /\ [][NextDedupe]_vars

\* C7: dedupe_frames is idempotent: applying it to its own result gives
\* that result again, for every icon state, well-formed or not.
C7_DedupeIdempotent ==
    (Len(calls) = 2 /\ calls[2].fn = "dedupe_frames") => calls[2].ret = calls[1].ret

\* dedupe_frames was applied again to a result from which it had dropped
\* a frame and that still holds two frames
C7_Witness ==
    /\ Len(calls) = 2
    /\ calls[2].fn = "dedupe_frames"
    /\ calls[1].arg[1].frames = 4
    /\ calls[1].ret.frames = 2
    /\ calls[1].ret.delay.v = <<3, 1>>

\* The frame groups of a well-formed icon state, and the indices of the
\* groups that start a run of equal groups
FrameGroups(st) == [k \in 1..st.frames |-> SubSeq(st.images, (k - 1) * st.dirs + 1, k * st.dirs)]
RunStarts(groups) ==
    SelectSeq([k \in 1..Len(groups) |-> k],
              LAMBDA k : k = 1 \/ groups[k] # groups[k - 1])

WellFormedAnimated(st) ==
    /\ st.frames > 1
    /\ st.delay.some
    /\ Len(st.delay.v) = st.frames
    /\ Len(st.images) = st.dirs * st.frames

\* out is the run-length compression of st
IsRunLengthCompression(st, out) ==
    LET groups == FrameGroups(st)
        starts == RunStarts(groups)
        runEnd == [j \in 1..Len(starts) |->
                      IF j = Len(starts) THEN st.frames ELSE starts[j + 1] - 1]
        outGroups == FrameGroups(out)
    IN
    /\ out.frames = Len(starts)
    /\ out.dirs = st.dirs /\ out.name = st.name /\ out.rewind = st.rewind
    /\ Len(out.images) = out.dirs * out.frames
    /\ out.delay.some /\ Len(out.delay.v) = out.frames
    /\ \A j \in 1..Len(starts) :
           /\ outGroups[j] = groups[starts[j]]
           /\ out.delay.v[j] = SumSeq(SubSeq(st.delay.v, starts[j], runEnd[j]))
    /\ \A j \in 1..(out.frames - 1) : outGroups[j] # outGroups[j + 1]
    /\ SumSeq(out.delay.v) = SumSeq(st.delay.v)

\* C8: on an icon state with frames > 1, frames delays and dirs*frames images
\* dedupe_frames gives the run-length compression of the frame groups, each
\* run keeping its first group with the sum of the run's delays; so no two
\* adjacent groups of the result are equal, |images| = dirs*frames,
\* |delay| = frames and the total delay is unchanged.  A state with
\* frames <= 1 or without delays comes back unchanged.
C8_DedupeRunLength ==
    \A i \in 1..Len(calls) :
        calls[i].fn = "dedupe_frames" =>
            LET st == calls[i].arg[1]
                out == calls[i].ret
            IN
            /\ (st.frames <= 1 \/ ~st.delay.some) => out = st
            /\ WellFormedAnimated(st) => IsRunLengthCompression(st, out)

\* Four identical frames with delays 1, 1, 1, 1 became one frame with delay 4
C8_Witness ==
    /\ Len(calls) = 1
    /\ calls[1].fn = "dedupe_frames"
    /\ calls[1].arg[1].dirs = 1
    /\ calls[1].arg[1].frames = 4
    /\ calls[1].arg[1].images = <<1, 1, 1, 1>>
    /\ calls[1].arg[1].delay = SomeDelay(<<1, 1, 1, 1>>)
    /\ calls[1].ret.frames = 1
    /\ calls[1].ret.images = <<1>>
    /\ calls[1].ret.delay = SomeDelay(<<4>>)

-----------------------------------------------------------------------------
(* Images (image::DynamicImage).  A raster holds its pixels row by row.    *)
(* A decoded input atlas is given by a pattern that tells the colour of    *)
(* each of its pixels: "unique" has no two pixels alike (and its top-left  *)
(* pixel transparent), "static" repeats its first row of tiles in every    *)
(* frame, "mixed" animates the even columns only.  Every colour other      *)
(* than 0 is opaque.                                                       *)

Ok(v) == [tag |-> "Ok", v |-> v]
Err(e) == [tag |-> "Err", err |-> e]
Panicked == [tag |-> "Panic"]

None == [some |-> FALSE]
Some(v) == [some |-> TRUE, v |-> v]

SeqSet(seq) == {seq[i] : i \in 1..Len(seq)}

\* A Vec: the sequence with every element computed, once
Vec(seq) == seq \o <<>>

AtlasKinds == {"unique", "static", "mixed"}

Atlas(kind, w, h, tile_w, tile_h) ==
    [kind |-> kind, w |-> w, h |-> h, tile_w |-> tile_w, tile_h |-> tile_h]

get_pixel(img, x, y) ==
    CASE img.kind = "raster" -> img.px[y * img.w + x + 1]
      [] img.kind = "unique" -> y * img.w + x
      [] img.kind = "static" -> (y % img.tile_h) * img.w + x
      [] img.kind = "mixed" ->
            IF (x \div img.tile_w) % 2 = 0 THEN y * img.w + x
            ELSE (y % img.tile_h) * img.w + x

Raster(w, h, Colour(_, _)) ==
    [kind |-> "raster", w |-> w, h |-> h,
     px |-> Vec([i \in 1..(w * h) |-> Colour((i - 1) % w, (i - 1) \div w)])]

new_rgba8(w, h) == Raster(w, h, LAMBDA x, y : 0)

\* DynamicImage::crop_imm: the rectangle is first clamped to the image
crop_imm(img, x, y, width, height) ==
    LET cx == Min(x, img.w)
        cy == Min(y, img.h)
        ch == Min(height, img.h - cy)
        cw == Min(width, img.w - cx)
    IN Raster(cw, ch, LAMBDA i, j : get_pixel(img, cx + i, cy + j))

Covers(top, x, y, i, j) == x <= i /\ i < x + top.w /\ y <= j /\ j < y + top.h

\* imageops::overlay: alpha blending; an opaque pixel of top replaces the
\* pixel below it, a transparent one leaves it
overlay(bottom, top, x, y) ==
    Raster(bottom.w, bottom.h,
           LAMBDA i, j :
               IF Covers(top, x, y, i, j) /\ get_pixel(top, i - x, j - y) # 0
               THEN get_pixel(top, i - x, j - y)
               ELSE get_pixel(bottom, i, j))

\* imageops::replace: every pixel of top that falls inside bottom is copied
replace(bottom, top, x, y) ==
    Raster(bottom.w, bottom.h,
           LAMBDA i, j :
               IF Covers(top, x, y, i, j)
               THEN get_pixel(top, i - x, j - y)
               ELSE get_pixel(bottom, i, j))

\* GenericImage::copy_from: an error unless other fits inside the image
copy_from(image, other, x, y) ==
    IF image.w < other.w + x \/ image.h < other.h + y THEN Err(<<"ImageError">>)
    ELSE Ok(replace(image, other, x, y))

-----------------------------------------------------------------------------
(* operations/cutters/bitmask_slice.rs: BitmaskSlice                       *)
(* self is [output_name, output_type, direction_strategy, icon_size,       *)
(* output_icon_pos, output_icon_size, positions, cut_pos, animation,       *)
(* prefabs, map_icon]; positions and prefabs.v are functions to columns.   *)

Point(x, y) == [x |-> x, y |-> y]

\* Positions::count and Positions::get
PositionsCount(positions) == Cardinality(DOMAIN positions)
PositionsGet(positions, corner_type) ==
    IF corner_type \in DOMAIN positions THEN Some(positions[corner_type]) ELSE None

\* Prefabs::count
PrefabsCount(prefabs) == IF prefabs.some THEN Cardinality(DOMAIN prefabs.v) ELSE 0

\* repeat_for: the delays repeated in a cycle up to num_frames entries
repeat_for(delays, num_frames) ==
    Vec([i \in 1..num_frames |-> delays[((i - 1) % Len(delays)) + 1]])

get_side_info(self, side) ==
    CASE side = "North" -> [start |-> 0, end |-> self.cut_pos.y]
      [] side = "South" -> [start |-> self.cut_pos.y, end |-> self.icon_size.y]
      [] side = "East" -> [start |-> self.cut_pos.x, end |-> self.icon_size.x]
      [] side = "West" -> [start |-> 0, end |-> self.cut_pos.x]

step(spacing) == spacing.end - spacing.start

AbsDiff(a, b) == IF a < b THEN b - a ELSE a - b

\* fract() of the quotient compared with 0 instead of 0.001
FractBelowThousandth_exact(actual_width, direction_width) ==
    /\ direction_width # 0
    /\ actual_width % direction_width = 0

\* (actual_width as f32 / direction_width).fract().abs() < 0.001.  Both
\* operands are integers below 2^24, so the quotient is the rational
\* actual_width / direction_width rounded to 24 bits, and its fractional
\* part is below 0.001 when 1000 * (actual_width mod direction_width) is
\* below direction_width; a division by 0.0 gives inf or NaN, whose
\* fractional part is NaN and compares false.
FractBelowThousandth(actual_width, direction_width) ==
    /\ direction_width # 0
    /\ 1000 * (actual_width % direction_width) < direction_width

slice_expected_width(self) ==
    Len(input_vec(self.direction_strategy))
        * (PositionsCount(self.positions) + PrefabsCount(self.prefabs))
        * self.icon_size.x

ImageWidthOffByOne(self, expected_width, actual_width) ==
    LET expected_inputs == expected_width \div self.icon_size.x
        reality_inputs == actual_width \div self.icon_size.x
    IN Err(<<"ImageWidthOffByOne", expected_width, actual_width,
             expected_inputs, reality_inputs>>)

\* The width check of perform_operation: Ok, or the error it returns
slice_check_width(self, img) ==
    LET position_count == PositionsCount(self.positions)
        direction_count == Len(input_vec(self.direction_strategy))
        prefab_count == PrefabsCount(self.prefabs)
        expected_width == direction_count * (position_count + prefab_count) * self.icon_size.x
        actual_width == img.w
        direction_width == expected_width \div direction_count
    IN
    IF expected_width # actual_width THEN
        IF AbsDiff(expected_width, actual_width) = direction_count * self.icon_size.x
        THEN ImageWidthOffByOne(self, expected_width, actual_width)
        ELSE IF FractBelowThousandth(actual_width, direction_width)
        THEN Err(<<"ImageWidthOffByDirection", expected_width, actual_width, direction_count,
                   actual_width \div ((position_count + prefab_count) * self.icon_size.x)>>)
        ELSE Err(<<"ImproperImageWidth", expected_width, actual_width>>)
    ELSE Ok(img.h \div self.icon_size.y)

\* The answers of the adjacency functions for every adjacency, computed
\* once: entry a + 1 is the answer for the adjacency with bits a
CornerIndex(corner) == CHOOSE k \in 1..Len(CornerSeq) : CornerSeq[k] = corner
CardinalIndex(direction) ==
    CHOOSE k \in 1..Len(dmi_cardinals) : dmi_cardinals[k] = direction

corner_type_table ==
    Vec([a \in 1..Cardinality(AllAdjacencies) |->
            Vec([k \in 1..Len(CornerSeq) |-> get_corner_type(a - 1, CornerSeq[k])])])
no_orphaned_corner_table ==
    Vec([a \in 1..Cardinality(AllAdjacencies) |-> has_no_orphaned_corner(a - 1)])
pretty_print_table ==
    Vec([a \in 1..Cardinality(AllAdjacencies) |-> pretty_print(a - 1)])
rotate_to_table ==
    Vec([a \in 1..Cardinality(AllAdjacencies) |->
            Vec([k \in 1..Len(dmi_cardinals) |-> rotate_to(a - 1, dmi_cardinals[k])])])

CornerSetSeq == <<"Cardinal", "StandardDiagonal", "CornerDiagonal">>
CornerSetIndex(output_type) ==
    CHOOSE t \in 1..Len(CornerSetSeq) : CornerSetSeq[t] = output_type
output_adjacencies_table ==
    Vec([t \in 1..Len(CornerSetSeq) |-> Vec(output_adjacencies(CornerSetSeq[t]))])

\* build_corner with the columns of the prefabs left out of the width of
\* one direction
build_corner_no_prefabs(self, img, position, position_count, dir_index, num_frames, prefab_count) ==
    [corner \in Corners |->
        Vec([frame \in 1..num_frames |->
            LET x_spacing == get_side_info(self, sides_of_corner(corner)[1])
                y_spacing == get_side_info(self, sides_of_corner(corner)[2])
                index == dir_index * position_count + position
                x == index * self.icon_size.x + x_spacing.start
                y == ((frame - 1) * self.icon_size.y) + y_spacing.start
            IN crop_imm(img, x, y, step(x_spacing), step(y_spacing))])]

build_corner(self, img, position, position_count, dir_index, num_frames, prefab_count) ==
    [corner \in Corners |->
        Vec([frame \in 1..num_frames |->
            LET frame_num == frame - 1
                x_side == sides_of_corner(corner)[1]
                y_side == sides_of_corner(corner)[2]
                x_spacing == get_side_info(self, x_side)
                y_spacing == get_side_info(self, y_side)
                x_offset == x_spacing.start
                y_offset == y_spacing.start
                index == dir_index * (position_count + prefab_count) + position
                x == index * self.icon_size.x + x_offset
                y == (frame_num * self.icon_size.y) + y_offset
            IN crop_imm(img, x, y, step(x_spacing), step(y_spacing))])]

\* generate_corners: [corners, prefabs], or a panic when positions has no
\* column for a corner type in use
generate_corners(self, img) ==
    LET num_frames == img.h \div self.icon_size.y
        corner_types == corners_used(self.output_type)
        prefab_count == PrefabsCount(self.prefabs)
        position_count == PositionsCount(self.positions)
        directions == SeqSet(input_vec(self.direction_strategy))
        DirIndex(direction) == input_positions(self.direction_strategy, direction)
    IN
    IF \E i \in 1..Len(corner_types) : ~PositionsGet(self.positions, corner_types[i]).some
    THEN Panicked
    ELSE Ok([
        corners |->
            [direction \in directions |->
                [corner_type \in SeqSet(corner_types) |->
                    build_corner(self, img, PositionsGet(self.positions, corner_type).v,
                                 position_count, DirIndex(direction), num_frames,
                                 prefab_count)]],
        prefabs |->
            [direction \in directions |->
                [adjacency \in (IF self.prefabs.some THEN DOMAIN self.prefabs.v ELSE {}) |->
                    Vec([frame \in 1..num_frames |->
                        LET position == self.prefabs.v[adjacency]
                            input_index ==
                                DirIndex(direction) * (position_count + prefab_count) + position
                            x == input_index * self.icon_size.x
                            y == (frame - 1) * self.icon_size.y
                        IN crop_imm(img, x, y, self.icon_size.x, self.icon_size.y)])]]])

\* The corners of one frame overlaid on a canvas, from CornerSeq[k] on
RECURSIVE OverlayCorners(_, _, _, _, _, _)
OverlayCorners(self, corner_map, adjacency, frame, frame_image, k) ==
    IF k > Len(CornerSeq) THEN frame_image
    ELSE
        LET corner == CornerSeq[k]
            corner_type == corner_type_table[adjacency + 1][CornerIndex(corner)]
            corner_img == corner_map[corner_type][corner][frame]
            horizontal == get_side_info(self, sides_of_corner(corner)[1])
            vertical == get_side_info(self, sides_of_corner(corner)[2])
        IN OverlayCorners(self, corner_map, adjacency, frame,
                          overlay(frame_image, corner_img, horizontal.start, vertical.start),
                          k + 1)

\* generate_icons: direction -> adjacency -> the frames of its image
generate_icons(self, corners, prefabs, num_frames, possible_adjacencies) ==
    [direction \in SeqSet(input_vec(self.direction_strategy)) |->
        [adjacency \in SeqSet(possible_adjacencies) |->
            Vec([frame \in 1..num_frames |->
                IF adjacency \in DOMAIN prefabs[direction]
                THEN replace(new_rgba8(self.output_icon_size.x, self.output_icon_size.y),
                             prefabs[direction][adjacency][frame],
                             self.output_icon_pos.x, self.output_icon_pos.y)
                ELSE OverlayCorners(self, corners[direction], adjacency, frame,
                                    new_rgba8(self.output_icon_size.x,
                                              self.output_icon_size.y), 1)])]]

\* The lookup of one output direction's frames with the adjacency left
\* unrotated under CardinalsRotated
slice_next_frame_unrotated(self, assembled_map, adjacency, direction) ==
    IF self.direction_strategy = "CardinalsRotated"
    THEN Ok(assembled_map[STANDARD][adjacency])
    ELSE Ok(assembled_map[direction][adjacency])

\* The frames of one output direction of a state: the match on the
\* direction strategy in the states loop
slice_next_frame(self, assembled_map, adjacency, direction) ==
    IF self.direction_strategy = "CardinalsRotated" THEN
        LET rotated_sig == rotate_to_table[adjacency + 1][CardinalIndex(direction)] IN
        IF rotated_sig = Panic THEN Panicked
        ELSE IF rotated_sig \notin DOMAIN assembled_map[STANDARD] THEN Panicked
        ELSE Ok(assembled_map[STANDARD][rotated_sig])
    ELSE Ok(assembled_map[direction][adjacency])

\* The icon state with its images flattened direction by direction, all
\* frames of a direction together
slice_icon_state_direction_major(self, assembled_map, adjacency, num_frames, delay, rewind) ==
    LET output_directions == output_vec(self.direction_strategy)
        dir_count == Len(output_directions)
        next_frame == Vec([i \in 1..dir_count |->
                              slice_next_frame(self, assembled_map, adjacency,
                                               output_directions[i])])
    IN
    IF \E i \in 1..dir_count : next_frame[i].tag = "Panic" THEN Panicked
    ELSE
        LET signature == pretty_print_table[adjacency + 1]
            name == IF self.output_name.some
                    THEN self.output_name.v \o <<"-">> \o signature
                    ELSE signature
        IN Ok([name |-> name, dirs |-> dir_count, frames |-> num_frames,
               images |-> Flatten(Vec([i \in 1..dir_count |->
                                          SubSeq(next_frame[i].v, 1, num_frames)])),
               delay |-> delay, rewind |-> rewind])

\* The icon state of an adjacency before dedupe_frames: one pass of the
\* states loop up to the IconState literal
slice_icon_state(self, assembled_map, adjacency, num_frames, delay, rewind) ==
    LET output_directions == output_vec(self.direction_strategy)
        dir_count == Len(output_directions)
        next_frame == Vec([i \in 1..dir_count |->
                              slice_next_frame(self, assembled_map, adjacency,
                                               output_directions[i])])
    IN
    IF \E i \in 1..dir_count : next_frame[i].tag = "Panic" THEN Panicked
    ELSE
        LET animated_blocks ==
                Vec([index \in 1..num_frames |->
                        Vec([i \in 1..dir_count |-> next_frame[i].v[index]])])
            icon_state_frames == Flatten(animated_blocks)
            signature == pretty_print_table[adjacency + 1]
            name == IF self.output_name.some
                    THEN self.output_name.v \o <<"-">> \o signature
                    ELSE signature
        IN Ok([name |-> name, dirs |-> dir_count, frames |-> num_frames,
               images |-> icon_state_frames, delay |-> delay, rewind |-> rewind])

\* The states loop without its filter on orphaned corners
states_to_gen_unfiltered(self) ==
    output_adjacencies_table[CornerSetIndex(self.output_type)]

\* The adjacencies the states loop visits, in order
states_to_gen(self) ==
    SelectSeq(output_adjacencies_table[CornerSetIndex(self.output_type)],
              LAMBDA adjacency : no_orphaned_corner_table[adjacency + 1])

\* generate_icons unwraps the corner library's answer for each corner
\* type it meets, once per frame
generate_icons_panics(self, num_frames, possible_adjacencies) ==
    /\ num_frames > 0
    /\ \E i \in 1..Len(possible_adjacencies), corner \in Corners :
           /\ ~(self.prefabs.some /\ possible_adjacencies[i] \in DOMAIN self.prefabs.v)
           /\ corner_type_table[possible_adjacencies[i] + 1][CornerIndex(corner)]
                  \notin SeqSet(corners_used(self.output_type))

\* Steps 2 to 4 of perform_operation: the icon states of the adjacencies
slice_icon_states(self, img) ==
    LET num_frames == img.h \div self.icon_size.y
        generated == generate_corners(self, img)
    IN
    IF generated.tag = "Panic" THEN Panicked
    ELSE IF generate_icons_panics(self, num_frames,
                                  output_adjacencies_table[CornerSetIndex(self.output_type)])
    THEN Panicked
    ELSE
        LET possible_adjacencies == output_adjacencies_table[CornerSetIndex(self.output_type)]
            assembled_map == generate_icons(self, generated.v.corners, generated.v.prefabs,
                                            num_frames, possible_adjacencies)
            delay == IF self.animation.some
                     THEN SomeDelay(repeat_for(self.animation.v.delays, num_frames))
                     ELSE NoDelay
            rewind == IF self.animation.some /\ self.animation.v.rewind.some
                      THEN self.animation.v.rewind.v ELSE FALSE
            adjacencies == states_to_gen(self)
            built == Vec([k \in 1..Len(adjacencies) |->
                             slice_icon_state(self, assembled_map, adjacencies[k],
                                              num_frames, delay, rewind)])
        IN
        IF \E k \in 1..Len(adjacencies) : built[k].tag = "Panic" THEN Panicked
        ELSE Ok(Vec([k \in 1..Len(adjacencies) |-> dedupe_frames(built[k].v)]))

\* generate_map_icon draws text with an external generator: the image it
\* gives back, or one of its two errors
MapIconOutcomes == {"Ok", "TextTooLong", "TooManyLines"}

generate_map_icon(width, height, map_icon, outcome) ==
    IF outcome = "Ok" THEN Ok(Raster(width, height, LAMBDA x, y : 1))
    ELSE Err(<<"GenerationFailed", outcome>>)

\* The CornerType variants in declaration order, the order a Map keyed by
\* CornerType is walked in
CornerTypeSeq == corners_used("CornerDiagonal")

\* The (direction, corner type, corner) triples generate_debug_icons visits
DebugVisits(self, corners) ==
    LET directions == input_vec(self.direction_strategy) IN
    Flatten([d \in 1..Len(directions) |->
        Flatten([t \in 1..Len(CornerTypeSeq) |->
            IF CornerTypeSeq[t] \in DOMAIN corners[directions[d]]
            THEN [c \in 1..Len(CornerSeq) |->
                     [direction |-> directions[d], corner_type |-> CornerTypeSeq[t],
                      corner |-> CornerSeq[c]]]
            ELSE <<>>])])

DebugInputIndex(self, visit) ==
    input_positions(self.direction_strategy, visit.direction)
        * (PositionsCount(self.positions) + PrefabsCount(self.prefabs))
        + self.positions[visit.corner_type]

RECURSIVE DebugCornersImage(_, _, _, _, _)
DebugCornersImage(self, corners, visits, corners_image, k) ==
    IF k > Len(visits) THEN corners_image
    ELSE
        LET horizontal == get_side_info(self, sides_of_corner(visits[k].corner)[1])
            vertical == get_side_info(self, sides_of_corner(visits[k].corner)[2])
            frame == corners[visits[k].direction][visits[k].corner_type][visits[k].corner][1]
        IN DebugCornersImage(self, corners, visits,
               replace(corners_image, frame,
                       DebugInputIndex(self, visits[k]) * self.icon_size.x + horizontal.start,
                       vertical.start),
               k + 1)

\* generate_debug_icons: one NamedIcon per corner and the reassembled input,
\* or a panic when a corner has no first frame
generate_debug_icons(self, corners, num_frames) ==
    LET directions == input_vec(self.direction_strategy)
        visits == DebugVisits(self, corners)
    IN
    IF num_frames = 0 /\ Len(visits) > 0 THEN Panicked
    ELSE Ok(
        [k \in 1..Len(visits) |->
            [path_hint |-> "DEBUGOUT/CORNERS/",
             name |-> <<"CORNER",
                        input_positions(self.direction_strategy, visits[k].direction),
                        visits[k].direction, DebugInputIndex(self, visits[k]),
                        visits[k].corner_type, visits[k].corner>>,
             image |-> corners[visits[k].direction][visits[k].corner_type]
                              [visits[k].corner][1]]]
        \o <<[path_hint |-> "DEBUGOUT", name |-> <<"ASSEMBLED-CORNERS">>,
              image |-> DebugCornersImage(self, corners, visits,
                            new_rgba8(Len(directions) * Cardinality(DOMAIN corners)
                                          * self.icon_size.x,
                                      self.icon_size.y), 1)]>>)

-----------------------------------------------------------------------------
(* BitmaskSlice::perform_operation, in three steps: the input and width    *)
(* check, the building of the icon states, the wrapping of the payload.    *)

SliceValidate ==
    /\ pc = "start"
    /\ operation.kind = "BitmaskSlice"
    /\ IF input.kind # "DynamicImage"
       THEN /\ result' = Err(<<"ImageNotFound">>)
            /\ pc' = "done"
            /\ UNCHANGED locals
       ELSE LET checked == slice_check_width(operation.self, input.img) IN
            IF checked.tag = "Err"
            THEN /\ result' = checked
                 /\ pc' = "done"
                 /\ UNCHANGED locals
            ELSE /\ locals' = [at |-> "validated", num_frames |-> checked.v]
                 /\ pc' = "generate"
                 /\ UNCHANGED result
    /\ UNCHANGED <<calls, operation, input, mode, history>>

SliceGenerate ==
    /\ pc = "generate"
    /\ operation.kind = "BitmaskSlice"
    /\ LET self == operation.self
           icon_states == slice_icon_states(self, input.img)
       IN
       \E outcome \in IF self.map_icon.some THEN MapIconOutcomes ELSE {"Ok"} :
           LET icon == generate_map_icon(self.output_icon_size.x, self.output_icon_size.y,
                                         self.map_icon, outcome)
           IN
           IF icon_states.tag = "Panic"
           THEN /\ result' = Panicked
                /\ pc' = "done"
                /\ locals' = NoLocals
           ELSE IF self.map_icon.some /\ icon.tag = "Err"
           THEN /\ result' = icon
                /\ pc' = "done"
                /\ locals' = NoLocals
           ELSE /\ locals' =
                       [at |-> "generated",
                        output_icon |->
                            [width |-> self.output_icon_size.x,
                             height |-> self.output_icon_size.y,
                             states |->
                                 IF self.map_icon.some
                                 THEN Append(icon_states.v,
                                             [name |-> self.map_icon.v.icon_state_name,
                                              dirs |-> 1, frames |-> 1,
                                              images |-> <<icon.v>>,
                                              delay |-> NoDelay, rewind |-> FALSE])
                                 ELSE icon_states.v]]
                /\ pc' = "output"
                /\ UNCHANGED result
    /\ UNCHANGED <<calls, operation, input, mode, history>>

SliceOutput ==
    /\ pc = "output"
    /\ operation.kind = "BitmaskSlice"
    /\ IF mode = "Debug"
       THEN LET corners == generate_corners(operation.self, input.img).v.corners
                out == generate_debug_icons(operation.self, corners,
                                            input.img.h \div operation.self.icon_size.y)
            IN result' = IF out.tag = "Panic" THEN Panicked
                         ELSE Ok([payload |-> "MultipleNamed",
                                  out |-> out.v,
                                  icon |-> locals.output_icon])
       ELSE result' = Ok([payload |-> "Single", icon |-> locals.output_icon])
    /\ pc' = "done"
    /\ locals' = NoLocals
    /\ UNCHANGED <<calls, operation, input, mode, history>>

NextSlice ==
    \/ SliceValidate
    \/ SliceGenerate
    \/ SliceOutput

-----------------------------------------------------------------------------
(* The configurations and atlases Slice is run on                          *)

MaxFrames == 2
MaxWidthMultiple == 9

\* positions giving the corner types in use the columns 0, 1, 2, ... in
\* the order of corners_used, and the same columns in the opposite order
DensePositions(output_type) ==
    LET used == corners_used(output_type) IN
    [corner_type \in SeqSet(used) |->
        (CHOOSE i \in 1..Len(used) : used[i] = corner_type) - 1]

ReversedPositions(output_type) ==
    LET used == corners_used(output_type) IN
    [corner_type \in SeqSet(used) |->
        Len(used) - (CHOOSE i \in 1..Len(used) : used[i] = corner_type)]

BaseSlice(output_type, direction_strategy, icon_size, cut_pos) ==
    [output_name |-> None,
     output_type |-> output_type,
     direction_strategy |-> direction_strategy,
     icon_size |-> icon_size,
     output_icon_pos |-> Point(0, 0),
     output_icon_size |-> icon_size,
     positions |-> DensePositions(output_type),
     cut_pos |-> cut_pos,
     animation |-> None,
     prefabs |-> None,
     map_icon |-> None]

\* One prefab, for the adjacency with no neighbours, in the column after
\* the corner columns
OnePrefab(self) == Some([adjacency \in {0} |-> PositionsCount(self.positions)])

Animations ==
    {None,
     Some([delays |-> <<1, 2>>, rewind |-> None]),
     Some([delays |-> <<3>>, rewind |-> Some(TRUE)])}

OutputNames == {None, Some(<<"w">>)}

\* An atlas of the expected width holding the given number of frames
FullAtlas(self, kind, frames) ==
    [kind |-> "DynamicImage",
     img |-> Atlas(kind, slice_expected_width(self), frames * self.icon_size.y,
                   self.icon_size.x, self.icon_size.y)]

AtlasContents ==
    {<<"unique", 1>>} \cup {<<kind, frames>> : kind \in AtlasKinds, frames \in 2..MaxFrames}

SliceRun(self, in, m) == [self |-> self, input |-> in, mode |-> m]

\* Every output type and direction strategy, with and without a name, on
\* a one-frame atlas of the expected width; and the Cardinal output type
\* with every animation and atlas content as well
ContentRunsOf(output_types, animations, contents) ==
    {SliceRun([BaseSlice(output_type, direction_strategy, Point(2, 2), Point(1, 1))
                   EXCEPT !.output_name = output_name, !.animation = animation],
              FullAtlas(BaseSlice(output_type, direction_strategy, Point(2, 2), Point(1, 1)),
                        content[1], content[2]),
              "Standard") :
        output_type \in output_types, direction_strategy \in DirectionStrategies,
        output_name \in OutputNames, animation \in animations, content \in contents}

ContentRuns ==
    ContentRunsOf(CornerSets, {None}, {<<"unique", 1>>})
        \cup ContentRunsOf({"Cardinal"}, Animations, AtlasContents)

\* Variations of the Cardinal configuration: a prefab, a map icon, other
\* column orders, cut positions, icon and output sizes, Debug mode, a wrong
\* input
VariedSelves ==
    LET base(direction_strategy) ==
            BaseSlice("Cardinal", direction_strategy, Point(2, 2), Point(1, 1))
    IN
    UNION {
        {[base(ds) EXCEPT !.prefabs = OnePrefab(base(ds))],
         [base(ds) EXCEPT !.map_icon = Some([icon_state_name |-> <<"m", "a", "p">>])],
         [base(ds) EXCEPT !.map_icon = Some([icon_state_name |-> <<"0">>])],
         [base(ds) EXCEPT !.positions = ReversedPositions("Cardinal")],
         [base(ds) EXCEPT !.cut_pos = Point(0, 2)],
         [base(ds) EXCEPT !.cut_pos = Point(2, 0)],
         [BaseSlice("Cardinal", ds, Point(3, 2), Point(2, 1))
             EXCEPT !.prefabs = OnePrefab(base(ds))],
         [base(ds) EXCEPT !.output_icon_size = Point(3, 3), !.output_icon_pos = Point(1, 1),
                          !.prefabs = OnePrefab(base(ds))],
         [base(ds) EXCEPT !.positions = [corner_type \in {"Convex", "Concave"} |->
                                            DensePositions("Cardinal")[corner_type]]],
         base(ds)}
        : ds \in DirectionStrategies}

VariedRuns ==
    {SliceRun(self, FullAtlas(self, content[1], content[2]), "Standard") :
        self \in VariedSelves, content \in AtlasContents}
    \cup {SliceRun(self, FullAtlas(self, "unique", 1), "Debug") : self \in VariedSelves}
    \cup {SliceRun(self, [kind |-> "Dmi", icon |-> [width |-> 2, height |-> 2, states |-> <<>>]],
                   "Standard") : self \in VariedSelves}

InitSliceWith(runs) ==
    /\ calls = <<>>
    /\ history = <<>>
    /\ pc = "start"
    /\ locals = NoLocals
    /\ result = NoResult
    /\ \E run \in runs :
           /\ operation = [kind |-> "BitmaskSlice", self |-> run.self]
           /\ input = run.input
           /\ mode = run.mode

InitSlice == InitSliceWith(ContentRuns \cup VariedRuns)

SpecSlice == InitSlice /\ [][NextSlice]_vars

\* Atlases of many widths: around each multiple of the width of one
\* direction's inputs, and one input per direction more or fewer than
\* expected; with and without a prefab, for icons 2 pixels wide and, for
\* the Cardinal output type, 32 and 251 pixels wide
WidthSlack == {-1, 0, 1, 2}

WidthsTried(self) ==
    LET expected_width == slice_expected_width(self)
        direction_count == Len(input_vec(self.direction_strategy))
        direction_width == expected_width \div direction_count
    IN
    {w \in {k * direction_width + e : k \in 0..MaxWidthMultiple, e \in WidthSlack}
           \cup {expected_width - direction_count * self.icon_size.x,
                 expected_width + direction_count * self.icon_size.x} : w >= 1}

WidthSelvesOf(output_types, sizes) ==
    UNION {
        {BaseSlice(output_type, direction_strategy, size[1], size[2]),
         [BaseSlice(output_type, direction_strategy, size[1], size[2])
             EXCEPT !.prefabs = OnePrefab(BaseSlice(output_type, direction_strategy,
                                                    size[1], size[2]))]}
        : output_type \in output_types, direction_strategy \in DirectionStrategies,
          size \in sizes}

WidthSelves ==
    WidthSelvesOf(CornerSets, {<<Point(2, 2), Point(1, 1)>>})
        \cup WidthSelvesOf({"Cardinal"},
                           {<<Point(32, 1), Point(16, 0)>>, <<Point(251, 1), Point(125, 1)>>})

WidthRuns ==
    UNION {
        {SliceRun(self,
                  [kind |-> "DynamicImage",
                   img |-> Atlas("unique", w, self.icon_size.y,
                                 self.icon_size.x, self.icon_size.y)],
                  "Standard") : w \in WidthsTried(self)}
        : self \in WidthSelves}

InitSliceWidth == InitSliceWith(WidthRuns)

SpecSliceWidth == InitSliceWidth /\ [][NextSlice]_vars

-----------------------------------------------------------------------------
(* Claims about Slice                                                      *)

SliceDone == operation.kind = "BitmaskSlice" /\ pc = "done"
SliceSucceeded == SliceDone /\ result.tag = "Ok"

WidthErrors == {"ImageWidthOffByOne", "ImageWidthOffByDirection", "ImproperImageWidth"}

\* Slice has run its width check and returned one of the width errors
WidthRefused == SliceDone /\ result.tag = "Err" /\ result.err[1] \in WidthErrors

\* Slice has run its width check on an image
WidthChecked ==
    operation.kind = "BitmaskSlice" /\ pc # "start" /\ input.kind = "DynamicImage"

\* The states Slice built for adjacencies: all but the map icon's state
AdjacencyStates ==
    LET states == result.v.icon.states IN
    IF operation.self.map_icon.some THEN SubSeq(states, 1, Len(states) - 1) ELSE states

StateName(self, adjacency) ==
    IF self.output_name.some
    THEN self.output_name.v \o <<"-">> \o pretty_print(adjacency)
    ELSE pretty_print(adjacency)

OneInputOff(self, actual_width) ==
    AbsDiff(slice_expected_width(self), actual_width)
        = Len(input_vec(self.direction_strategy)) * self.icon_size.x

DirectionWidth(self) ==
    slice_expected_width(self) \div Len(input_vec(self.direction_strategy))

ExactMultiple(self, actual_width) ==
    DirectionWidth(self) # 0 /\ actual_width % DirectionWidth(self) = 0

\* C3 as stated: the width check passes iff W = D*(P+F)*icon_size.x, and a
\* failing width gets ImageWidthOffByOne iff |expected-actual| = D*icon_size.x,
\* ImageWidthOffByDirection iff actual is an exact multiple of expected/D,
\* ImproperImageWidth iff neither, the first two never holding together.
C3_WidthConditionsExclusive ==
    WidthChecked =>
        LET self == operation.self
            actual_width == input.img.w
        IN
        /\ WidthRefused <=> actual_width # slice_expected_width(self)
        /\ WidthRefused =>
               /\ result.err[1] = "ImageWidthOffByOne" <=> OneInputOff(self, actual_width)
               /\ result.err[1] = "ImageWidthOffByDirection"
                      <=> ExactMultiple(self, actual_width)
               /\ result.err[1] = "ImproperImageWidth"
                      <=> (~OneInputOff(self, actual_width)
                              /\ ~ExactMultiple(self, actual_width))
               /\ ~(OneInputOff(self, actual_width) /\ ExactMultiple(self, actual_width))

\* C3, amended: the width check passes iff W = D*(P+F)*icon_size.x; a failing
\* width gets the error of the first condition that holds, in the order
\* ImageWidthOffByOne when |expected-actual| = D*icon_size.x,
\* ImageWidthOffByDirection when the fractional part of actual/(expected/D)
\* is below 0.001, ImproperImageWidth otherwise.
C3_WidthConditionsInOrder ==
    WidthChecked =>
        LET self == operation.self
            actual_width == input.img.w
            expected_width == slice_expected_width(self)
        IN
        /\ WidthRefused <=> actual_width # expected_width
        /\ WidthRefused =>
               /\ result.err[2] = expected_width
               /\ result.err[3] = actual_width
               /\ result.err[1] =
                      IF OneInputOff(self, actual_width) THEN "ImageWidthOffByOne"
                      ELSE IF DirectionWidth(self) # 0
                              /\ 1000 * (actual_width % DirectionWidth(self))
                                     < DirectionWidth(self)
                      THEN "ImageWidthOffByDirection"
                      ELSE "ImproperImageWidth"

\* A width one input per direction above the expected one that is also an
\* exact multiple of expected/D was refused as ImageWidthOffByOne, for the
\* Cardinal corner columns under the Cardinals strategy
C3_Witness ==
    /\ WidthRefused
    /\ operation.self.output_type = "Cardinal"
    /\ operation.self.direction_strategy = "Cardinals"
    /\ ~operation.self.prefabs.some
    /\ operation.self.icon_size.x = 2
    /\ input.img.w = 40
    /\ OneInputOff(operation.self, input.img.w)
    /\ ExactMultiple(operation.self, input.img.w)
    /\ result.err[1] = "ImageWidthOffByOne"

\* C4: the last two fields of ImageWidthOffByOne(expected, actual, e, a) are
\* the inputs per direction, e = P+F and a = actual/(D*icon_size.x), under
\* every direction strategy; the Scenario A configuration (Cardinal,
\* Standard, icons 32 wide, four positions, no prefabs) with an atlas 160
\* wide gets ImageWidthOffByOne(128, 160, 4, 5).
C4_OffByOneInputsPerDirection ==
    (WidthRefused /\ result.err[1] = "ImageWidthOffByOne") =>
        LET self == operation.self
            direction_count == Len(input_vec(self.direction_strategy))
        IN
        /\ result.err[4] = PositionsCount(self.positions) + PrefabsCount(self.prefabs)
        /\ result.err[5] = input.img.w \div (direction_count * self.icon_size.x)
        /\ (/\ self.output_type = "Cardinal"
            /\ self.direction_strategy = "Standard"
            /\ self.icon_size.x = 32
            /\ ~self.prefabs.some
            /\ input.img.w = 160)
               => result.err = <<"ImageWidthOffByOne", 128, 160, 4, 5>>

\* The frames of output direction number i of the state of an adjacency,
\* as C10 gives them
C10_DirectionFrames(self, assembled, adjacency, i) ==
    IF self.direction_strategy = "CardinalsRotated"
    THEN assembled[STANDARD][rotate_to(adjacency, <<"S", "N", "E", "W">>[i])]
    ELSE assembled[output_vec(self.direction_strategy)[i]][adjacency]

\* C10: under CardinalsRotated every adjacency state has the 4 directions
\* S, N, E, W in this order and the images of direction d are the
\* standard-direction composition of A.rotate_to(d); under every other
\* strategy the images of direction d are assembled[d][A].  The state holds
\* them frame by frame, as dedupe_frames leaves them.
C10_RotatedDirections ==
    SliceSucceeded =>
        LET self == operation.self
            st == AdjacencyStates
            num_frames == input.img.h \div self.icon_size.y
            generated == generate_corners(self, input.img).v
            assembled == generate_icons(self, generated.corners, generated.prefabs,
                                        num_frames, output_adjacencies(self.output_type))
            adjacencies == SelectSeq(output_adjacencies(self.output_type),
                                     has_no_orphaned_corner)
            dirs == IF self.direction_strategy = "CardinalsRotated" THEN 4
                    ELSE Len(output_vec(self.direction_strategy))
        IN
        \A k \in 1..Len(st) :
            LET frames == Vec([i \in 1..dirs |->
                                  C10_DirectionFrames(self, assembled, adjacencies[k], i)])
                images == Flatten(Vec([f \in 1..num_frames |->
                                          Vec([i \in 1..dirs |-> frames[i][f]])]))
            IN
            /\ st[k].dirs = dirs
            /\ st[k].images =
                   dedupe_frames([st[k] EXCEPT !.frames = num_frames, !.images = images,
                                               !.delay = IF self.animation.some
                                                         THEN SomeDelay(repeat_for(
                                                                  self.animation.v.delays,
                                                                  num_frames))
                                                         ELSE NoDelay]).images

\* Under CardinalsRotated the state of adjacency 1 (N) holds, as its
\* direction number 1 (N), the image that the state of adjacency 2 (S)
\* holds for the standard direction, and a different image for S
C10_Witness ==
    /\ SliceSucceeded
    /\ operation.self.output_type = "Cardinal"
    /\ operation.self.direction_strategy = "CardinalsRotated"
    /\ ~operation.self.prefabs.some
    /\ Len(AdjacencyStates) = 16
    /\ AdjacencyStates[2].name = StateName(operation.self, 1)
    /\ AdjacencyStates[3].name = StateName(operation.self, 2)
    /\ AdjacencyStates[2].dirs = 4
    /\ AdjacencyStates[2].images[2] = AdjacencyStates[3].images[1]
    /\ AdjacencyStates[2].images[1] # AdjacencyStates[2].images[2]

-----------------------------------------------------------------------------
(* operations/format_converter/bitmask_to_precut.rs:                       *)
(* BitmaskSliceReconstruct.  self is [extract, bespoke, set]: extract a    *)
(* sequence of names, bespoke and set an Option of a StringMap, the        *)
(* entries <<key, value>> of a table in their listed order.                *)

\* StringMap::get
StringMapGet(map, key) ==
    IF \E i \in 1..Len(map) : map[i][1] = key
    THEN Some(map[CHOOSE i \in 1..Len(map) :
                      map[i][1] = key /\ \A j \in 1..(i - 1) : map[j][1] # key][2])
    ELSE None

\* The first part of name.split('-')
split_first(name) ==
    IF find(name, "-") = -1 THEN name ELSE SubSeq(name, 1, find(name, "-"))

\* The parts after the first of name.split('-'), joined again with '-'
split_rest(name) ==
    IF find(name, "-") = -1 THEN None
    ELSE Some(SubSeq(name, find(name, "-") + 2, Len(name)))

\* reduce(|acc, elem| format!("{acc}{sep}{elem}")): None for no texts
RECURSIVE JoinFrom(_, _, _, _)
JoinFrom(acc, texts, sep, k) ==
    IF k > Len(texts) THEN acc
    ELSE JoinFrom(acc \o sep \o texts[k], texts, sep, k + 1)

join(texts, sep) ==
    IF Len(texts) = 0 THEN None ELSE Some(JoinFrom(texts[1], texts, sep, 2))

CommaSpace == <<",", " ">>

\* The prefix read off the first state
output_prefix(states) ==
    IF Len(states) = 0 THEN None
    ELSE IF split_rest(states[1].name).some THEN Some(split_first(states[1].name))
    ELSE None

unwrap_or_default(option) == IF option.some THEN option.v ELSE <<>>

\* Each state with its suffix, and whether its prefix conflicts
frames_drop_prefix(states) ==
    Vec([k \in 1..Len(states) |->
        LET full_name == states[k].name
            prefix == split_first(full_name)
            suffix == split_rest(full_name)
        IN [state |-> states[k],
            suffix |-> IF suffix.some THEN suffix.v ELSE prefix,
            problem |-> suffix.some /\ prefix # unwrap_or_default(output_prefix(states))]])

problem_entries(states) ==
    LET dropped == frames_drop_prefix(states) IN
    Vec([k \in 1..Len(SelectSeq(dropped, LAMBDA entry : entry.problem)) |->
            SelectSeq(dropped, LAMBDA entry : entry.problem)[k].state.name])

\* The selected states, renamed to their suffix, in the icon's order
trimmed_frames(self, bespoke, dropped) ==
    LET kept == SelectSeq(dropped, LAMBDA entry :
                    \/ StringMapGet(bespoke, entry.suffix).some
                    \/ InSeq(self.extract, entry.suffix))
    IN Vec([k \in 1..Len(kept) |-> [kept[k].state EXCEPT !.name = kept[k].suffix]])

bespoke_found(bespoke, dropped) ==
    LET found == SelectSeq(dropped, LAMBDA entry : StringMapGet(bespoke, entry.suffix).some)
    IN Vec([k \in 1..Len(found) |-> found[k].suffix])

\* The states neither parseable as an Adjacency nor caught, as "(suffix)";
\* the parse runs first, for every state, and may abort
ignored_states(dropped, strings_caught) ==
    IF \E k \in 1..Len(dropped) : from_str(dropped[k].suffix) = Panic THEN Panicked
    ELSE
        LET missed == SelectSeq(dropped, LAMBDA entry :
                          /\ from_str(entry.suffix) = InvalidAdjacencyError
                          /\ ~InSeq(strings_caught, entry.suffix))
        IN Ok(join([k \in 1..Len(missed) |-> <<"(">> \o missed[k].suffix \o <<")">>],
                   CommaSpace))

\* The fold into a HashMap: a name listed twice keeps its last index
position_map(names) ==
    [name \in SeqSet(names) |->
        (CHOOSE i \in 1..Len(names) :
             names[i] = name /\ \A j \in (i + 1)..Len(names) : names[j] # name) - 1]

\* sort_by on the position: stable, every selected name has a position
sort_by_position(frames, positions, count) ==
    Flatten([p \in 1..count |->
                SelectSeq(frames, LAMBDA state : positions[state.name] = p - 1)])

MaxOr(values, default) ==
    IF Len(values) = 0 THEN default
    ELSE CHOOSE v \in SeqSet(values) : \A u \in SeqSet(values) : u <= v

\* reduce keeping the longer delay list, the later one of two equally long
RECURSIVE LongestDelay(_, _, _)
LongestDelay(acc, some_delays, k) ==
    IF k > Len(some_delays) THEN acc
    ELSE LongestDelay(IF Len(acc) > Len(some_delays[k]) THEN acc ELSE some_delays[k],
                      some_delays, k + 1)

canonical_delays(frames) ==
    LET some_delays == SelectSeq([k \in 1..Len(frames) |-> frames[k].delay],
                                 LAMBDA delay : delay.some)
    IN IF Len(some_delays) = 0 THEN NoDelay
       ELSE SomeDelay(LongestDelay(some_delays[1].v,
                                   [k \in 1..Len(some_delays) |-> some_delays[k].v], 2))

\* The while loop of the expansion: one frame group pushed per canonical
\* delay taken; real_delays[delay_index] is out of range at its length
RECURSIVE ConsumeDelays(_, _, _, _, _)
ConsumeDelays(delay_to_process, delay_index, real_delays, frame, new_frames) ==
    IF delay_to_process > 0 /\ delay_index <= Len(real_delays)
    THEN IF delay_index = Len(real_delays) THEN Panicked
         ELSE ConsumeDelays(delay_to_process - real_delays[delay_index + 1],
                            delay_index + 1, real_delays, frame, Append(new_frames, frame))
    ELSE Ok([delay_to_process |-> delay_to_process, delay_index |-> delay_index,
             new_frames |-> new_frames])

\* The for loop of the expansion: the new frame groups, "broken", or a panic
RECURSIVE ExpandFrames(_, _, _, _, _, _)
ExpandFrames(frame_delays, groups, real_delays, k, delay_index, new_frames) ==
    IF k > Min(Len(frame_delays), Len(groups)) THEN Ok(new_frames)
    ELSE
        LET consumed == ConsumeDelays(frame_delays[k], delay_index, real_delays,
                                      groups[k], new_frames)
        IN
        IF consumed.tag = "Panic" THEN Panicked
        ELSE IF consumed.v.delay_to_process # 0 THEN [tag |-> "Broken"]
        ELSE ExpandFrames(frame_delays, groups, real_delays, k + 1,
                          consumed.v.delay_index, consumed.v.new_frames)

\* One pass of the paint loop up to the painting: the frame groups of the
\* state, or the problem recorded for it, or a panic.  Delays are whole
\* numbers here, so two sums less than 0.001 apart are equal and a rest
\* that rounds to 0 is 0; chunks panics on a chunk size of 0.
grouped_frames(state, delays, delay_count, most_directions) ==
    IF state.dirs # most_directions THEN [tag |-> "Dirs"]
    ELSE IF delays # state.delay /\ delays.some THEN
        LET frame_delays == IF state.delay.some THEN state.delay.v ELSE <<delay_count>>
            frame_count == SumSeq(frame_delays)
        IN
        IF delay_count = frame_count THEN [tag |-> "Delays"]
        ELSE IF state.dirs = 0 THEN Panicked
        ELSE
            LET expanded == ExpandFrames(frame_delays, chunks(state.images, state.dirs),
                                         delays.v, 1, 0, <<>>)
            IN IF expanded.tag = "Broken" THEN [tag |-> "Delays"] ELSE expanded
    ELSE IF state.dirs = 0 THEN Panicked
    ELSE Ok(chunks(state.images, state.dirs))

\* The copies the paint loop makes for the state in column x
PaintsOf(icon, x, groups, input_count) ==
    Flatten([y \in 1..Len(groups) |->
        [direction_index \in 1..Len(groups[y]) |->
            [frame |-> groups[y][direction_index],
             x_pos |-> x * icon.width + (direction_index - 1) * input_count * icon.width,
             y_pos |-> (y - 1) * icon.height]]])

RECURSIVE Paint(_, _, _)
Paint(output_image, paints, k) ==
    IF k > Len(paints) THEN Ok(output_image)
    ELSE
        LET copied == copy_from(output_image, paints[k].frame,
                                paints[k].x_pos, paints[k].y_pos)
        IN IF copied.tag = "Err" THEN Panicked ELSE Paint(copied.v, paints, k + 1)

\* The problems of one kind, in column order
ProblemStates(frames, rows, kind) ==
    LET indices == SelectSeq([k \in 1..Len(frames) |-> k], LAMBDA k : rows[k].tag = kind)
    IN Vec([i \in 1..Len(indices) |->
               IF kind = "Dirs"
               THEN [state |-> frames[indices[i]].name, dirs |-> frames[indices[i]].dirs]
               ELSE [state |-> frames[indices[i]].name,
                     delays |-> frames[indices[i]].delay.v]])

\* The paint loop and the two checks after it
reconstruct_paint(icon, frames, input_count) ==
    LET frame_count == Len(frames)
        longest_frame == MaxOr([k \in 1..Len(frames) |-> frames[k].frames], 1)
        most_directions == MaxOr([k \in 1..Len(frames) |-> frames[k].dirs], 1)
        delays == canonical_delays(frames)
        delay_count == SumSeq(delays.v)
        rows == Vec([k \in 1..Len(frames) |->
                        grouped_frames(frames[k], delays, delay_count, most_directions)])
        paints == Flatten([k \in 1..Len(frames) |->
                              IF rows[k].tag = "Ok"
                              THEN PaintsOf(icon, k - 1, rows[k].v, input_count)
                              ELSE <<>>])
        painted == Paint(new_rgba8(icon.width * frame_count * most_directions,
                                   icon.height * longest_frame),
                         paints, 1)
    IN
    IF \E k \in 1..Len(frames) : rows[k].tag = "Panic" THEN Panicked
    ELSE IF painted.tag = "Panic" THEN Panicked
    ELSE IF \E k \in 1..Len(frames) : rows[k].tag = "Delays"
    THEN Err(<<"InconsistentDelays", delays.v, ProblemStates(frames, rows, "Delays")>>)
    ELSE IF \E k \in 1..Len(frames) : rows[k].tag = "Dirs"
    THEN Err(<<"InconsistentDirs", most_directions, ProblemStates(frames, rows, "Dirs")>>)
    ELSE Ok([output_image |-> painted.v, delays |-> delays,
             most_directions |-> most_directions, frame_count |-> frame_count,
             rewind |-> IF Len(frames) = 0 THEN FALSE ELSE frames[1].rewind])

-----------------------------------------------------------------------------
(* The configuration text, line by line.  A line is written as the parts   *)
(* format! puts together: a table header, a key with a text, number, list  *)
(* or boolean, an entry copied from a StringMap, or the empty line.        *)

BlankLine == [line |-> "blank"]
HeaderLine(table) == [line |-> "header", table |-> table]
QuotedLine(key, text) == [line |-> "quoted", key |-> key, text |-> text]
NumberLine(key, number) == [line |-> "number", key |-> key, digits |-> to_string(number)]
BoolLine(key, flag) == [line |-> "bool", key |-> key, flag |-> flag]
EntryLine(entry_key, entry_value) ==
    [line |-> "entry", entry_key |-> entry_key, entry_value |-> entry_value]

\* util/delays.rs text_delays: the delays with the suffix, joined by ", "
text_delays(textify, suffix) ==
    [open |-> "[",
     items |-> unwrap_or_default(
                   join([k \in 1..Len(textify) |-> to_string(textify[k]) \o suffix],
                        CommaSpace)),
     close |-> "]"]

ListLine(key, list) == [line |-> "list", key |-> key, list |-> list]

\* The [prefabs] table: the values of bespoke numbered from count
PrefabLines(map, count) ==
    [k \in 1..Len(map) |-> EntryLine(map[k][2], to_string(count + k - 1))]

reconstruct_config(self, icon, prefix, found_count, painted) ==
    LET strategy == count_to_strategy(painted.most_directions) IN
    IF strategy = "None" THEN Panicked
    ELSE Ok(
        (IF prefix.some THEN <<QuotedLine("output_name", prefix.v)>> ELSE <<>>)
        \o (IF self.set.some
            THEN [k \in 1..Len(self.set.v) |-> EntryLine(self.set.v[k][1], self.set.v[k][2])]
                 \o <<BlankLine>>
            ELSE <<>>)
        \o (IF strategy # "Standard"
            THEN <<QuotedLine("direction_strategy", strategy), BlankLine>>
            ELSE <<>>)
        \o (IF self.bespoke.some
            THEN <<HeaderLine("prefabs")>>
                 \o PrefabLines(self.bespoke.v, painted.frame_count - found_count)
                 \o <<BlankLine>>
            ELSE <<>>)
        \o (IF painted.delays.some
            THEN <<HeaderLine("animation"),
                   ListLine("delays", text_delays(painted.delays.v, <<>>))>>
                 \o (IF painted.rewind THEN <<BoolLine("rewind", painted.rewind)>> ELSE <<>>)
                 \o <<BlankLine>>
            ELSE <<>>)
        \o <<HeaderLine("icon_size"),
             NumberLine("x", icon.width), NumberLine("y", icon.height), BlankLine,
             HeaderLine("output_icon_size"),
             NumberLine("x", icon.width), NumberLine("y", icon.height), BlankLine,
             HeaderLine("cut_pos"),
             NumberLine("x", icon.width \div 2), NumberLine("y", icon.height \div 2),
             BlankLine>>)

-----------------------------------------------------------------------------
(* BitmaskSliceReconstruct::perform_operation, in three steps: the         *)
(* selection of the states, the painting of the atlas, the writing of the  *)
(* configuration.                                                          *)

ReconstructSelect ==
    /\ pc = "start"
    /\ operation.kind = "BitmaskSliceReconstruct"
    /\ IF input.kind # "Dmi"
       THEN /\ result' = Err(<<"DMINotFound">>)
            /\ pc' = "done"
            /\ UNCHANGED locals
       ELSE LET self == operation.self
                states == input.icon.states
                bespoke == IF self.bespoke.some THEN self.bespoke.v ELSE <<>>
                dropped == frames_drop_prefix(states)
                troublesome_states == join(problem_entries(states), CommaSpace)
                trimmed == trimmed_frames(self, bespoke, dropped)
                found == bespoke_found(bespoke, dropped)
                ignored == ignored_states(dropped,
                                          [k \in 1..Len(trimmed) |-> trimmed[k].name])
                order == self.extract \o found
            IN
            IF troublesome_states.some
            THEN /\ result' = Err(<<"InconsistentPrefixes", troublesome_states.v>>)
                 /\ pc' = "done"
                 /\ UNCHANGED locals
            ELSE IF ignored.tag = "Panic"
            THEN /\ result' = Panicked
                 /\ pc' = "done"
                 /\ UNCHANGED locals
            ELSE IF ignored.v.some
            THEN /\ result' = Err(<<"DroppedStates", ignored.v.v>>)
                 /\ pc' = "done"
                 /\ UNCHANGED locals
            ELSE /\ locals' = [at |-> "selected",
                               output_prefix |-> output_prefix(states),
                               bespoke_found |-> found,
                               input_count |-> Cardinality(SeqSet(order)),
                               trimmed_frames |->
                                   sort_by_position(trimmed, position_map(order),
                                                    Len(order))]
                 /\ pc' = "paint"
                 /\ UNCHANGED result
    /\ UNCHANGED <<calls, operation, input, mode, history>>

ReconstructPaint ==
    /\ pc = "paint"
    /\ operation.kind = "BitmaskSliceReconstruct"
    /\ LET painted == reconstruct_paint(input.icon, locals.trimmed_frames,
                                        locals.input_count)
       IN
       IF painted.tag = "Ok"
       THEN /\ locals' = [at |-> "painted",
                          output_prefix |-> locals.output_prefix,
                          bespoke_found |-> locals.bespoke_found,
                          painted |-> painted.v]
            /\ pc' = "config"
            /\ UNCHANGED result
       ELSE /\ result' = painted
            /\ pc' = "done"
            /\ locals' = NoLocals
    /\ UNCHANGED <<calls, operation, input, mode, history>>

ReconstructConfig ==
    /\ pc = "config"
    /\ operation.kind = "BitmaskSliceReconstruct"
    /\ LET config == reconstruct_config(operation.self, input.icon, locals.output_prefix,
                                        Len(locals.bespoke_found), locals.painted)
       IN result' = IF config.tag = "Panic" THEN Panicked
                    ELSE Ok([payload |-> "ConfigWrapped",
                             image |-> locals.painted.output_image,
                             config |-> config.v])
    /\ pc' = "done"
    /\ locals' = NoLocals
    /\ UNCHANGED <<calls, operation, input, mode, history>>

-----------------------------------------------------------------------------
(* operations/cutters/bitmask_dir_visibility.rs: BitmaskDirectionalVis     *)
(* self is [bitmask_slice_config, slice_point, mask_color]: a BitmaskSlice *)
(* and, for every Side, the point at which the side is cut.                *)

\* SlicePoint::get
SlicePointGet(slice_point, side) ==
    IF side \in DOMAIN slice_point THEN Some(slice_point[side]) ELSE None

get_side_cuts(self, side) ==
    CASE side = "North" -> [start |-> 0, end |-> SlicePointGet(self.slice_point, "North").v]
      [] side = "South" -> [start |-> SlicePointGet(self.slice_point, "South").v,
                            end |-> self.bitmask_slice_config.icon_size.y]
      [] side = "East" -> [start |-> SlicePointGet(self.slice_point, "East").v,
                           end |-> self.bitmask_slice_config.icon_size.x]
      [] side = "West" -> [start |-> 0, end |-> SlicePointGet(self.slice_point, "West").v]

\* The rectangle of a side: vertical sides take the full width, the
\* others the full height
side_rectangle(self, side) ==
    LET slice_info == get_side_cuts(self, side) IN
    IF is_vertical(side)
    THEN [x |-> 0, y |-> slice_info.start,
          width |-> self.bitmask_slice_config.icon_size.x, height |-> step(slice_info)]
    ELSE [x |-> slice_info.start, y |-> 0,
          width |-> step(slice_info), height |-> self.bitmask_slice_config.icon_size.y]

\* The rectangle of an inner corner: the horizontal span of the Slice
\* configuration, the vertical span of the slice point
corner_rectangle(self, corner) ==
    LET horizontal == sides_of_corner(corner)[1]
        vertical == sides_of_corner(corner)[2]
        horizontal_side_info == get_side_info(self.bitmask_slice_config, horizontal)
        slice_point == SlicePointGet(self.slice_point, vertical).v
    IN [x |-> horizontal_side_info.start,
        y |-> IF vertical = "North" THEN 0 ELSE slice_point,
        width |-> step(horizontal_side_info),
        height |-> IF vertical = "North" THEN slice_point
                   ELSE self.bitmask_slice_config.icon_size.y - slice_point]

\* The part of the image inside the rectangle, on a clear canvas of the
\* size of an icon
cut_image(self, image, rectangle) ==
    overlay(new_rgba8(self.bitmask_slice_config.icon_size.x,
                      self.bitmask_slice_config.icon_size.y),
            crop_imm(image, rectangle.x, rectangle.y, rectangle.width, rectangle.height),
            rectangle.x, rectangle.y)

\* The frames of one output direction: the match on the direction
\* strategy.  The adjacency is rotated, which may abort, and the lookup is
\* made with the adjacency itself
dir_vis_images(self, assembled_map, adjacency, direction) ==
    IF self.bitmask_slice_config.direction_strategy = "CardinalsRotated" THEN
        LET rotated_sig == rotate_to_table[adjacency + 1][CardinalIndex(direction)] IN
        IF rotated_sig = Panic THEN Panicked
        ELSE Ok(assembled_map[STANDARD][adjacency])
    ELSE Ok(assembled_map[direction][adjacency])

\* The state pushed for one side or corner: images holds the cut frames of
\* every output direction, pushed direction by direction
dir_vis_state(self, name, images, num_frames, delay, rewind) ==
    LET dir_count == Len(output_vec(self.bitmask_slice_config.direction_strategy)) IN
    dedupe_frames([name |-> name, dirs |-> dir_count, frames |-> num_frames,
                   images |-> Flatten(images), delay |-> delay, rewind |-> rewind])

\* The four states of one adjacency, one pass of the outer loop
dir_vis_side_states(self, assembled_map, adjacency, num_frames, delay, rewind) ==
    LET output_directions == output_vec(self.bitmask_slice_config.direction_strategy)
        images == Vec([i \in 1..Len(output_directions) |->
                          dir_vis_images(self, assembled_map, adjacency,
                                         output_directions[i])])
    IN
    IF \E i \in 1..Len(output_directions) : images[i].tag = "Panic" THEN Panicked
    ELSE Ok(Vec([s \in 1..Len(side_dmi_cardinals) |->
            LET side == side_dmi_cardinals[s] IN
            dir_vis_state(self,
                pretty_print_table[adjacency + 1] \o <<"-">> \o to_string(side_byond_dir(side)),
                Vec([i \in 1..Len(output_directions) |->
                        Vec([f \in 1..Len(images[i].v) |->
                                cut_image(self, images[i].v[f], side_rectangle(self, side))])]),
                num_frames, delay, rewind)]))

innercorner_text == <<"i", "n", "n", "e", "r", "c", "o", "r", "n", "e", "r">>

\* The states of the inner corners, cut from the tile of CARDINALS
dir_vis_corner_states(self, assembled_map, num_frames, delay, rewind) ==
    LET strategy == self.bitmask_slice_config.direction_strategy
        output_directions == output_vec(strategy)
        convex_images ==
            [i \in 1..Len(output_directions) |->
                assembled_map[IF strategy = "CardinalsRotated" THEN STANDARD
                              ELSE output_directions[i]][CARDINALS]]
    IN Vec([c \in 1..Len(CornerSeq) |->
            dir_vis_state(self,
                innercorner_text \o <<"-">> \o to_string(corner_byond_dir(CornerSeq[c])),
                Vec([i \in 1..Len(output_directions) |->
                        Vec([f \in 1..Len(convex_images[i]) |->
                                cut_image(self, convex_images[i][f],
                                          corner_rectangle(self, CornerSeq[c]))])]),
                num_frames, delay, rewind)])

\* perform_operation up to the map icon: the states of the sides and of
\* the inner corners
dir_vis_icon_states(self, img) ==
    LET config == self.bitmask_slice_config
        num_frames == img.h \div config.icon_size.y
        generated == generate_corners(config, img)
        possible_adjacencies == output_adjacencies_table[CornerSetIndex(config.output_type)]
    IN
    IF generated.tag = "Panic" THEN Panicked
    ELSE IF generate_icons_panics(config, num_frames, possible_adjacencies) THEN Panicked
    ELSE
        LET assembled_map == generate_icons(config, generated.v.corners, generated.v.prefabs,
                                            num_frames, possible_adjacencies)
            delay == IF config.animation.some
                     THEN SomeDelay(repeat_for(config.animation.v.delays, num_frames))
                     ELSE NoDelay
            rewind == IF config.animation.some /\ config.animation.v.rewind.some
                      THEN config.animation.v.rewind.v ELSE FALSE
            adjacencies == states_to_gen(config)
            built == Vec([k \in 1..Len(adjacencies) |->
                             dir_vis_side_states(self, assembled_map, adjacencies[k],
                                                 num_frames, delay, rewind)])
        IN
        IF \E k \in 1..Len(adjacencies) : built[k].tag = "Panic" THEN Panicked
        ELSE Ok(Flatten([k \in 1..Len(adjacencies) |-> built[k].v])
                    \o dir_vis_corner_states(self, assembled_map, num_frames, delay, rewind))

-----------------------------------------------------------------------------
(* BitmaskDirectionalVis::perform_operation, in two steps: the building of *)
(* the icon states, the wrapping of the payload.                           *)

DirVisGenerate ==
    /\ pc = "start"
    /\ operation.kind = "BitmaskDirectionalVis"
    /\ IF input.kind # "DynamicImage"
       THEN /\ result' = Err(<<"ImageNotFound">>)
            /\ pc' = "done"
            /\ UNCHANGED locals
       ELSE LET self == operation.self
                config == self.bitmask_slice_config
                icon_states == dir_vis_icon_states(self, input.img)
            IN
            \E outcome \in IF config.map_icon.some THEN MapIconOutcomes ELSE {"Ok"} :
                LET icon == generate_map_icon(config.output_icon_size.x,
                                              config.output_icon_size.y,
                                              config.map_icon, outcome)
                IN
                IF icon_states.tag = "Panic"
                THEN /\ result' = Panicked
                     /\ pc' = "done"
                     /\ UNCHANGED locals
                ELSE IF config.map_icon.some /\ icon.tag = "Err"
                THEN /\ result' = icon
                     /\ pc' = "done"
                     /\ UNCHANGED locals
                ELSE /\ locals' =
                            [at |-> "generated",
                             out_icon |->
                                 [width |-> config.output_icon_size.x,
                                  height |-> config.output_icon_size.y,
                                  states |->
                                      IF config.map_icon.some
                                      THEN Append(icon_states.v,
                                                  [name |-> config.map_icon.v.icon_state_name,
                                                   dirs |-> 1, frames |-> 1,
                                                   images |-> <<icon.v>>,
                                                   delay |-> NoDelay, rewind |-> FALSE])
                                      ELSE icon_states.v]]
                     /\ pc' = "output"
                     /\ UNCHANGED result
    /\ UNCHANGED <<calls, operation, input, mode, history>>

DirVisOutput ==
    /\ pc = "output"
    /\ operation.kind = "BitmaskDirectionalVis"
    /\ IF mode = "Debug"
       THEN LET config == operation.self.bitmask_slice_config
                corners == generate_corners(config, input.img).v.corners
                out == generate_debug_icons(config, corners,
                                            input.img.h \div config.icon_size.y)
            IN result' = IF out.tag = "Panic" THEN Panicked
                         ELSE Ok([payload |-> "MultipleNamed",
                                  out |-> out.v,
                                  icon |-> locals.out_icon])
       ELSE result' = Ok([payload |-> "Single", icon |-> locals.out_icon])
    /\ pc' = "done"
    /\ locals' = NoLocals
    /\ UNCHANGED <<calls, operation, input, mode, history>>

NextDirVis ==
    \/ DirVisGenerate
    \/ DirVisOutput

-----------------------------------------------------------------------------
(* The configurations and atlases the directional-visibility slicer is     *)
(* run on                                                                  *)

DirVisRun(config, slice_point, in, m) ==
    [self |-> [bitmask_slice_config |-> config, slice_point |-> slice_point,
               mask_color |-> None],
     input |-> in, mode |-> m]

\* Every side cut in the middle of the icon; and the sides cut at other
\* points, North and South left empty
SlicePoints ==
    {[side \in Sides |-> 1],
     [side \in Sides |-> CASE side = "North" -> 0
                           [] side = "South" -> 2
                           [] side = "East" -> 1
                           [] side = "West" -> 2]}

DirVisBase(output_type, direction_strategy) ==
    BaseSlice(output_type, direction_strategy, Point(2, 2), Point(1, 1))

\* An atlas of another width than the expected one
WrongAtlas(config, width) ==
    [kind |-> "DynamicImage",
     img |-> Atlas("unique", width, config.icon_size.y, config.icon_size.x,
                   config.icon_size.y)]

WrongWidths(config) ==
    {slice_expected_width(config)
         + Len(input_vec(config.direction_strategy)) * config.icon_size.x,
     slice_expected_width(config) - 1,
     2 * slice_expected_width(config)}

\* The Cardinal output type under every direction strategy with every
\* animation and atlas content; the diagonal output types on a one-frame
\* atlas; atlases of a wrong width; a prefab, a map icon, Debug mode, a
\* wrong input
DirVisRuns ==
    {DirVisRun([DirVisBase("Cardinal", direction_strategy) EXCEPT !.animation = animation],
               slice_point,
               FullAtlas(DirVisBase("Cardinal", direction_strategy), content[1], content[2]),
               "Standard") :
        direction_strategy \in DirectionStrategies, animation \in Animations,
        slice_point \in SlicePoints, content \in AtlasContents}
    \cup
    {DirVisRun(DirVisBase(output_type, direction_strategy), [side \in Sides |-> 1],
               FullAtlas(DirVisBase(output_type, direction_strategy), "unique", 1),
               "Standard") :
        output_type \in {"StandardDiagonal", "CornerDiagonal"},
        direction_strategy \in {"Standard", "CardinalsRotated"}}
    \cup
    UNION {
        {DirVisRun(DirVisBase("Cardinal", direction_strategy), [side \in Sides |-> 1],
                   WrongAtlas(DirVisBase("Cardinal", direction_strategy), width),
                   "Standard") :
            width \in WrongWidths(DirVisBase("Cardinal", direction_strategy))}
        : direction_strategy \in DirectionStrategies}
    \cup
    UNION {
        {DirVisRun(config, [side \in Sides |-> 1], FullAtlas(config, "unique", 1), m),
         DirVisRun(config, [side \in Sides |-> 1],
                   [kind |-> "Dmi", icon |-> [width |-> 2, height |-> 2, states |-> <<>>]],
                   m)}
        : config \in {DirVisBase("Cardinal", "Cardinals"),
                      [DirVisBase("Cardinal", "Cardinals")
                          EXCEPT !.prefabs = OnePrefab(DirVisBase("Cardinal", "Cardinals"))],
                      [DirVisBase("Cardinal", "Standard")
                          EXCEPT !.map_icon = Some([icon_state_name |-> <<"m", "a", "p">>])]},
          m \in {"Standard", "Debug"}}

InitDirVis ==
    /\ calls = <<>>
    /\ history = <<>>
    /\ pc = "start"
    /\ locals = NoLocals
    /\ result = NoResult
    /\ \E run \in DirVisRuns :
           /\ operation = [kind |-> "BitmaskDirectionalVis", self |-> run.self]
           /\ input = run.input
           /\ mode = run.mode

SpecDirVis == InitDirVis /\ [][NextDirVis]_vars

-----------------------------------------------------------------------------
(* Slice, then Reconstruct on its icon, then Slice again on the atlas and  *)
(* the configuration Reconstruct wrote.                                    *)

\* The text of a list "a, b, c" taken apart again
RECURSIVE split_list(_)
split_list(items) ==
    IF Len(items) = 0 THEN <<>>
    ELSE IF find(items, ",") = -1 THEN <<items>>
    ELSE <<SubSeq(items, 1, find(items, ","))>>
             \o split_list(SubSeq(items, find(items, ",") + 3, Len(items)))

parse_delays(list) ==
    LET items == split_list(list.items) IN
    Vec([k \in 1..Len(items) |-> DigitsValue(items[k])])

\* The configuration file read back into a BitmaskSlice: every key the
\* text holds is taken from it, under the table its header opened
RECURSIVE LoadLines(_, _, _, _)
LoadLines(self, config, table, k) ==
    IF k > Len(config) THEN self
    ELSE
        LET entry == config[k] IN
        CASE entry.line = "header" -> LoadLines(self, config, entry.table, k + 1)
          [] entry.line = "quoted" ->
                LoadLines(IF entry.key = "output_name"
                          THEN [self EXCEPT !.output_name = Some(entry.text)]
                          ELSE [self EXCEPT !.direction_strategy = entry.text],
                          config, table, k + 1)
          [] entry.line = "number" ->
                LoadLines([self EXCEPT ![table][entry.key] = DigitsValue(entry.digits)],
                          config, table, k + 1)
          [] entry.line = "list" ->
                LoadLines([self EXCEPT !.animation =
                               Some([delays |-> parse_delays(entry.list),
                                     rewind |-> None])],
                          config, table, k + 1)
          [] entry.line = "bool" ->
                LoadLines([self EXCEPT !.animation.v.rewind = Some(entry.flag)],
                          config, table, k + 1)
          [] OTHER -> LoadLines(self, config, table, k + 1)

\* The fields the text may leave out are absent or at their default; the
\* output type, the positions and the output position, which Reconstruct
\* never writes, are those of the configuration the icon was cut with
load_slice_config(config, original) ==
    LoadLines([original EXCEPT !.output_name = None,
                               !.direction_strategy = "Standard",
                               !.animation = None,
                               !.prefabs = None],
              config, "", 1)

\* The names of all states of an icon without the output name Slice put
\* in front of them, in the icon's order
EmittedSuffixes(self, icon) ==
    Vec([k \in 1..Len(icon.states) |->
            LET name == icon.states[k].name
                lead == IF self.output_name.some THEN self.output_name.v \o <<"-">> ELSE <<>>
            IN IF Len(lead) > 0 /\ Len(name) >= Len(lead)
                  /\ SubSeq(name, 1, Len(lead)) = lead
               THEN SubSeq(name, Len(lead) + 1, Len(name))
               ELSE name])

\* The adjacency all of whose corners are of the corner type
SoleAdjacency(corner_type) ==
    CASE corner_type = "Convex" -> 0
      [] corner_type = "Concave" -> CARDINALS
      [] corner_type = "Horizontal" -> union(E, W)
      [] corner_type = "Vertical" -> union(N, S)
      [] corner_type = "Flat" -> PackBits(0..7)
      [] corner_type = "BottomRightInner" -> union(union(S, E), INNER_EDGE)
      [] corner_type = "BottomLeftInner" -> union(union(S, W), INNER_EDGE)
      [] corner_type = "TopRightInner" -> union(union(N, E), INNER_EDGE)
      [] corner_type = "TopLeftInner" -> union(union(N, W), INNER_EDGE)
      [] corner_type = "BottomRightOuter" -> union(union(union(S, E), SE), OUTER_EDGE)
      [] corner_type = "BottomLeftOuter" -> union(union(union(S, W), SW), OUTER_EDGE)
      [] corner_type = "TopRightOuter" -> union(union(union(N, E), NE), OUTER_EDGE)
      [] corner_type = "TopLeftOuter" -> union(union(union(N, W), NW), OUTER_EDGE)

\* One state name per column of positions, in column order
CornerSuffixes(self) ==
    Vec([column \in 1..PositionsCount(self.positions) |->
            pretty_print(SoleAdjacency(
                CHOOSE corner_type \in DOMAIN self.positions :
                    self.positions[corner_type] = column - 1))])

\* The extract lists tried: one state per column of positions; and every
\* state of the icon, when the atlas that asks for is not too wide
MaxAtlasColumns == 64

Extracts(self, icon) ==
    {CornerSuffixes(self)}
        \cup (IF Len(icon.states) * Len(output_vec(self.direction_strategy))
                    <= MaxAtlasColumns
              THEN {EmittedSuffixes(self, icon)}
              ELSE {})

Done == [operation |-> operation, input |-> input, result |-> result]

\* The icon Slice gave is handed to Reconstruct
FeedReconstruct ==
    /\ pc = "done"
    /\ operation.kind = "BitmaskSlice"
    /\ history = <<>>
    /\ result.tag = "Ok"
    /\ result.v.payload = "Single"
    /\ \E extract \in Extracts(operation.self, result.v.icon) :
           operation' = [kind |-> "BitmaskSliceReconstruct",
                         self |-> [extract |-> extract, bespoke |-> None, set |-> None]]
    /\ input' = [kind |-> "Dmi", icon |-> result.v.icon]
    /\ history' = <<Done>>
    /\ pc' = "start"
    /\ result' = NoResult
    /\ locals' = NoLocals
    /\ UNCHANGED <<calls, mode>>

\* The atlas and the configuration Reconstruct gave are handed to Slice
FeedSlice ==
    /\ pc = "done"
    /\ operation.kind = "BitmaskSliceReconstruct"
    /\ Len(history) = 1
    /\ result.tag = "Ok"
    /\ operation' = [kind |-> "BitmaskSlice",
                     self |-> load_slice_config(result.v.config,
                                                history[1].operation.self)]
    /\ input' = [kind |-> "DynamicImage", img |-> result.v.image]
    /\ history' = Append(history, Done)
    /\ pc' = "start"
    /\ result' = NoResult
    /\ locals' = NoLocals
    /\ UNCHANGED <<calls, mode>>

NextRoundTrip ==
    \/ SliceValidate
    \/ SliceGenerate
    \/ SliceOutput
    \/ FeedReconstruct
    \/ ReconstructSelect
    \/ ReconstructPaint
    \/ ReconstructConfig
    \/ FeedSlice

\* The configurations the round trip starts from: every output type and
\* direction strategy with and without a name, the Cardinal animations and
\* contents, other cut positions and column orders, a map icon
RoundTripSelves ==
    LET base(direction_strategy) ==
            BaseSlice("Cardinal", direction_strategy, Point(2, 2), Point(1, 1))
    IN
    UNION {
        {[base(ds) EXCEPT !.map_icon = Some([icon_state_name |-> <<"m", "a", "p">>])],
         [base(ds) EXCEPT !.positions = ReversedPositions("Cardinal")],
         [base(ds) EXCEPT !.cut_pos = Point(0, 2)],
         [base(ds) EXCEPT !.output_icon_size = Point(3, 3), !.output_icon_pos = Point(1, 1)]}
        : ds \in DirectionStrategies}

RoundTripRuns ==
    ContentRuns
        \cup {SliceRun(self, FullAtlas(self, "unique", 1), "Standard") :
                 self \in RoundTripSelves}

InitRoundTrip == InitSliceWith(RoundTripRuns)

SpecRoundTrip == InitRoundTrip /\ [][NextRoundTrip]_vars

-----------------------------------------------------------------------------
(* The round trip                                                          *)

FirstSlice == history[1]

\* No state of the first icon lost a frame to dedupe_frames
NoFramesDropped ==
    \A k \in 1..Len(FirstSlice.result.v.icon.states) :
        FirstSlice.result.v.icon.states[k].frames
            = FirstSlice.input.img.h \div FirstSlice.operation.self.icon_size.y

ReconstructDone ==
    /\ pc = "done"
    /\ operation.kind = "BitmaskSliceReconstruct"
    /\ Len(history) = 1

SecondSliceDone ==
    /\ pc = "done"
    /\ operation.kind = "BitmaskSlice"
    /\ Len(history) = 2

SameStates(left, right) ==
    /\ Len(left) = Len(right)
    /\ \A k \in 1..Len(left) : dedupe_frames(left[k]) = dedupe_frames(right[k])

\* C2: for an icon cut by Slice from a configuration with no prefabs and
\* no frames dropped, Reconstruct with extract = the suffixes of all the
\* states of the icon and no bespoke succeeds, and Slice on the atlas and
\* the configuration it wrote gives the states of the icon again, equal up
\* to dedupe_frames.
C2_RoundTrip ==
    /\ (/\ ReconstructDone
        /\ operation.self.extract = EmittedSuffixes(FirstSlice.operation.self, input.icon)
        /\ ~FirstSlice.operation.self.prefabs.some
        /\ NoFramesDropped)
       => result.tag = "Ok"
    /\ (/\ SecondSliceDone
        /\ history[2].operation.self.extract
               = EmittedSuffixes(FirstSlice.operation.self, history[2].input.icon)
        /\ ~FirstSlice.operation.self.prefabs.some
        /\ NoFramesDropped)
       => /\ result.tag = "Ok"
          /\ SameStates(result.v.icon.states, FirstSlice.result.v.icon.states)

\* With every state of the icon extracted the atlas has one column per
\* state, and Slice refuses its width
EmittedExtractRefused ==
    (/\ SecondSliceDone
     /\ history[2].operation.self.extract
            = EmittedSuffixes(FirstSlice.operation.self, history[2].input.icon))
    => /\ result.tag = "Err"
       /\ result.err[1] \in WidthErrors

\* Reconstruct refuses the icon Slice cuts for CornerDiagonal without an
\* output name, whatever extract lists: it takes the "5" of "5-d" for a prefix
UnnamedCornerDiagonalRefused ==
    (/\ ReconstructDone
     /\ FirstSlice.operation.self.output_type = "CornerDiagonal"
     /\ ~FirstSlice.operation.self.output_name.some
     /\ ~FirstSlice.operation.self.map_icon.some)
    => /\ result.tag = "Err"
       /\ result.err[1] = "InconsistentPrefixes"

\* The configurations whose icon does come back: no prefab, no map icon,
\* no frames dropped, the cut in the middle, no rotated directions, and a
\* name in front of the "-d" states
ComesBack ==
    LET self == FirstSlice.operation.self IN
    /\ ~self.prefabs.some
    /\ ~self.map_icon.some
    /\ NoFramesDropped
    /\ self.cut_pos = Point(self.output_icon_size.x \div 2, self.output_icon_size.y \div 2)
    /\ self.direction_strategy # "CardinalsRotated"
    /\ self.output_name.some \/ self.output_type # "CornerDiagonal"

\* With one state per column of positions extracted, the icon comes back
RoundTripOfCornerStates ==
    /\ (/\ ReconstructDone
        /\ operation.self.extract = CornerSuffixes(FirstSlice.operation.self)
        /\ ComesBack)
       => result.tag = "Ok"
    /\ (/\ SecondSliceDone
        /\ history[2].operation.self.extract = CornerSuffixes(FirstSlice.operation.self)
        /\ ComesBack)
       => /\ result.tag = "Ok"
          /\ SameStates(result.v.icon.states, FirstSlice.result.v.icon.states)

RoundTripOfCornerStates_Witness ==
    /\ SecondSliceDone
    /\ history[2].operation.self.extract = CornerSuffixes(FirstSlice.operation.self)
    /\ ComesBack
    /\ FirstSlice.operation.self.output_type = "CornerDiagonal"
    /\ FirstSlice.operation.self.direction_strategy = "All"
    /\ result.tag = "Ok"

-----------------------------------------------------------------------------
(* Reconstruct on decoded icons of its own: any state names, dirs, frames  *)
(* and delay lists a .dmi file can hold.                                   *)

Frame(colour) == Raster(1, 1, LAMBDA x, y : colour)

\* An icon state with dirs * frames images of one pixel, all different
DmiState(name, dirs, frames, delay) ==
    [name |-> name, dirs |-> dirs, frames |-> frames,
     images |-> Vec([k \in 1..(dirs * frames) |-> Frame(k)]),
     delay |-> delay, rewind |-> FALSE]

DmiIcon(states) == [kind |-> "Dmi", icon |-> [width |-> 1, height |-> 1, states |-> states]]

Hyphenated(prefix, suffix) == prefix \o <<"-">> \o suffix

prefix_text == <<"p", "r", "e", "f", "i", "x">>
decoration_text == <<"d", "e", "c", "o", "r", "a", "t", "i", "o", "n">>
trim_text == <<"t", "r", "i", "m">>
window_text == <<"w", "i", "n", "d", "o", "w">>

\* The names "0" .. "count - 1"
Numbers(count) == Vec([k \in 1..count |-> to_string(k - 1)])

\* Static states named by the numbers, with the prefix in front if there is one
NumberedStates(prefix, count) ==
    Vec([k \in 1..count |->
            DmiState(IF prefix.some THEN Hyphenated(prefix.v, to_string(k - 1))
                     ELSE to_string(k - 1),
                     1, 1, NoDelay)])

\* Names of states besides the numbered ones
ExtraNames ==
    {decoration_text, trim_text, window_text, to_string(16), to_string(1024),
     Hyphenated(prefix_text, <<"5", "-", "d">>), Hyphenated(prefix_text, trim_text),
     <<"5", "-", "d">>}

ExtraStates ==
    {<<>>}
        \cup {<<DmiState(name, 1, 1, NoDelay)>> : name \in ExtraNames}
        \cup {<<DmiState(pair[1], 1, 1, NoDelay), DmiState(pair[2], 1, 1, NoDelay)>> :
                 pair \in {p \in ExtraNames \X ExtraNames : p[1] # p[2]}}

ReconstructRun(extract, bespoke, set, in) ==
    [self |-> [extract |-> extract, bespoke |-> bespoke, set |-> set], input |-> in]

\* Sixteen numbered states and up to two others; the numbers extracted,
\* with and without one of the other names, with and without a bespoke key
NameRuns ==
    {ReconstructRun(extract, bespoke, None, DmiIcon(NumberedStates(prefix, 16) \o extra)) :
        prefix \in {None, Some(prefix_text)},
        extra \in ExtraStates,
        extract \in {Numbers(16), Append(Numbers(16), trim_text)},
        bespoke \in {None, Some(<<<<window_text, <<"w">>>>>>)}}

\* Names with and without a hyphen, before which stands "a", "b", "5" or nothing
PrefixNames ==
    {<<"0">>, <<"a">>, <<"a", "-", "0">>, <<"a", "-", "1">>, <<"b", "-", "1">>,
     <<"5", "-", "d">>, <<"a", "-", "5", "-", "d">>, <<"-", "0">>, <<"5">>}

\* Icons of one to three states with different names, in every order
PrefixRuns ==
    {ReconstructRun(<<<<"0">>, <<"1">>, <<"5">>>>, None, None,
                    DmiIcon(<<DmiState(first, 1, 1, NoDelay)>>)) :
        first \in PrefixNames}
    \cup {ReconstructRun(<<<<"0">>, <<"1">>, <<"5">>>>, None, None,
                         DmiIcon(<<DmiState(pair[1], 1, 1, NoDelay),
                                   DmiState(pair[2], 1, 1, NoDelay)>>)) :
             pair \in {p \in PrefixNames \X PrefixNames : p[1] # p[2]}}
    \cup {ReconstructRun(<<<<"0">>, <<"1">>, <<"5">>>>, None, None,
                         DmiIcon(<<DmiState(<<"0">>, 1, 1, NoDelay),
                                   DmiState(pair[1], 1, 1, NoDelay),
                                   DmiState(pair[2], 1, 1, NoDelay)>>)) :
             pair \in {p \in PrefixNames \X PrefixNames :
                           p[1] # p[2] /\ p[1] # <<"0">> /\ p[2] # <<"0">>}}

\* The delay lists of a state: none, or up to MaxDelays delays of 1 .. MaxDelay
MaxDelays == 3
MaxDelay == 4

DelayLists ==
    {NoDelay} \cup {SomeDelay(ds) : ds \in UNION {[1..n -> 1..MaxDelay] : n \in 1..MaxDelays}}

FramesOf(delay) == IF delay.some THEN Len(delay.v) ELSE 1

\* State "0" animated in four or three frames and state "1" with any of the
\* delay lists, both extracted, in both orders
DelayRuns ==
    {ReconstructRun(<<<<"0">>, <<"1">>>>, None, None,
                    DmiIcon(IF swapped
                            THEN <<DmiState(<<"1">>, 1, FramesOf(delay), delay),
                                   DmiState(<<"0">>, 1, Len(longest), SomeDelay(longest))>>
                            ELSE <<DmiState(<<"0">>, 1, Len(longest), SomeDelay(longest)),
                                   DmiState(<<"1">>, 1, FramesOf(delay), delay)>>)) :
        longest \in {<<1, 1, 1, 1>>, <<1, 2, 1>>},
        delay \in DelayLists,
        swapped \in BOOLEAN}

\* The dirs of a state as the file gives them
DirsValues == {0, 1, 2, 3, 4, 8}

DirsRuns ==
    {ReconstructRun(<<<<"0">>, <<"1">>>>, None, set,
                    DmiIcon(<<DmiState(<<"0">>, first, 1, NoDelay)>>)) :
        first \in DirsValues, set \in {None, Some(<<<<"k", "v">>>>)}}
    \cup {ReconstructRun(<<<<"0">>, <<"1">>>>, None, None,
                         DmiIcon(<<DmiState(<<"0">>, first, 1, NoDelay),
                                   DmiState(<<"1">>, second, 1, NoDelay)>>)) :
             first \in DirsValues, second \in DirsValues}

\* Three selected states "0", "1", "2", each with one or four dirs and a
\* delay list of its own; with and without a state of another prefix and
\* a state that is dropped
ErrorDelays ==
    {NoDelay, SomeDelay(<<1, 1>>), SomeDelay(<<2, 2>>), SomeDelay(<<4, 4>>),
     SomeDelay(<<2, 1, 1>>)}

ErrorExtras ==
    {<<>>,
     <<DmiState(<<"a", "-", "1">>, 1, 1, NoDelay)>>,
     <<DmiState(trim_text, 1, 1, NoDelay)>>,
     <<DmiState(trim_text, 1, 1, NoDelay), DmiState(<<"a", "-", "1">>, 1, 1, NoDelay)>>}

ErrorRuns ==
    {ReconstructRun(<<<<"0">>, <<"1">>, <<"2">>>>, None, None,
                    DmiIcon(<<DmiState(<<"0">>, dirs[1], FramesOf(delays[1]), delays[1]),
                              DmiState(<<"1">>, dirs[2], FramesOf(delays[2]), delays[2]),
                              DmiState(<<"2">>, dirs[3], FramesOf(delays[3]), delays[3])>>
                            \o extra)) :
        dirs \in {1, 4} \X {1, 4} \X {1, 4},
        delays \in {NoDelay, SomeDelay(<<2, 1, 1>>)} \X ErrorDelays \X ErrorDelays,
        extra \in ErrorExtras}

ReconstructRuns ==
    NameRuns \cup PrefixRuns \cup DelayRuns \cup DirsRuns \cup ErrorRuns
        \cup {ReconstructRun(Numbers(16), None, None,
                             [kind |-> "DynamicImage", img |-> new_rgba8(1, 1)])}

InitReconstruct ==
    /\ calls = <<>>
    /\ history = <<>>
    /\ pc = "start"
    /\ locals = NoLocals
    /\ result = NoResult
    /\ mode = "Standard"
    /\ \E run \in ReconstructRuns :
           /\ operation = [kind |-> "BitmaskSliceReconstruct", self |-> run.self]
           /\ input = run.input

NextReconstruct ==
    \/ ReconstructSelect
    \/ ReconstructPaint
    \/ ReconstructConfig

SpecReconstruct == InitReconstruct /\ [][NextReconstruct]_vars

-----------------------------------------------------------------------------
(* The orphan check, the text form and the enumeration of adjacencies,     *)
(* applied to inputs drawn from bounded sets; the orphan check also beside *)
(* a finished Slice of StandardDiagonal, which applies it to every         *)
(* adjacency it may emit.                                                  *)

CallHasNoOrphanedCorner ==
    /\ pc \in {"idle", "done"}
    /\ First
    /\ \E a \in AllAdjacencies :
           Call("has_no_orphaned_corner", <<a>>, has_no_orphaned_corner(a))

CallPrettyPrint ==
    /\ pc = "idle"
    /\ First
    /\ \E a \in AllAdjacencies : Call("pretty_print", <<a>>, pretty_print(a))

\* Texts that are not the print of an Adjacency
TextsTried ==
    {<<"d">>, <<"+", "5">>, <<"0", "5">>, <<"5", "d">>, <<"1", "0", "2", "4">>,
     <<"2", "5", "6">>, <<"6", "5", "5", "3", "6">>, <<"5", "-">>, <<>>,
     <<"d", "e", "c", "o", "r", "a", "t", "i", "o", "n">>, <<"t", "r", "i", "m">>}

CallFromStr ==
    /\ pc = "idle"
    /\ \/ /\ First
          /\ \E text \in TextsTried : Call("from_str", <<text>>, from_str(text))
       \/ /\ Chained("pretty_print")
          /\ Call("from_str", <<calls[1].ret>>, from_str(calls[1].ret))

CallOutputAdjacencies ==
    /\ pc = "idle"
    /\ First
    /\ \E output_type \in CornerSets :
           Call("output_adjacencies", <<output_type>>, output_adjacencies(output_type))

DiagonalRuns == ContentRunsOf({"StandardDiagonal"}, {None}, {<<"unique", 1>>})

InitAdjacency == InitAdj \/ InitSliceWith(DiagonalRuns)

NextAdjacency ==
    \/ CallHasNoOrphanedCorner
    \/ CallPrettyPrint
    \/ CallFromStr
    \/ CallOutputAdjacencies
    \/ SliceValidate
    \/ SliceGenerate
    \/ SliceOutput

SpecAdjacency == InitAdjacency /\ [][NextAdjacency]_vars

-----------------------------------------------------------------------------
\* Each diagonal with its two component sides
DiagonalParts == <<<<NE, N, E>>, <<SE, S, E>>, <<SW, S, W>>, <<NW, N, W>>>>

SidesOfDiagonalsPresent(a) ==
    \A k \in 1..Len(DiagonalParts) :
        contains(a, DiagonalParts[k][1])
            => contains(a, DiagonalParts[k][2]) /\ contains(a, DiagonalParts[k][3])

Emitted(adjacency) ==
    \E k \in 1..Len(AdjacencyStates) :
        AdjacencyStates[k].name = StateName(operation.self, adjacency)

\* C12: has_no_orphaned_corner is true of an adjacency exactly when both
\* component sides of every diagonal it contains are in it: false for 16
\* and 48, true for 23; and a successful Slice of StandardDiagonal emits
\* the state "23" but neither "16" nor "48".
C12_NoOrphanedCorner ==
    /\ \A i \in 1..Len(calls) :
           calls[i].fn = "has_no_orphaned_corner" =>
               /\ calls[i].ret = SidesOfDiagonalsPresent(calls[i].arg[1])
               /\ calls[i].arg[1] \in {NE, union(NE, SE)} => calls[i].ret = FALSE
               /\ calls[i].arg[1] = union(union(union(N, S), E), NE) => calls[i].ret = TRUE
    /\ (SliceSucceeded /\ operation.self.output_type = "StandardDiagonal") =>
           /\ Emitted(23)
           /\ ~Emitted(16)
           /\ ~Emitted(48)

\* Slice of StandardDiagonal gave its 47 states, "23" among them, and the
\* check applied to 48 (NE|SE, E missing) answered false
C12_Witness ==
    /\ SliceSucceeded
    /\ operation.self.output_type = "StandardDiagonal"
    /\ Len(AdjacencyStates) = 47
    /\ Emitted(23)
    /\ Len(calls) = 1
    /\ calls[1] = [fn |-> "has_no_orphaned_corner", arg |-> <<48>>, ret |-> FALSE]

-----------------------------------------------------------------------------
\* The vertical side, horizontal side and diagonal of a Corner
CornerParts(corner) ==
    CASE corner = "NorthEast" -> [v |-> N, h |-> E, d |-> NE]
      [] corner = "SouthEast" -> [v |-> S, h |-> E, d |-> SE]
      [] corner = "SouthWest" -> [v |-> S, h |-> W, d |-> SW]
      [] corner = "NorthWest" -> [v |-> N, h |-> W, d |-> NW]

\* C13: for an adjacency with no EDGES bit, get_corner_type(c) is Flat when
\* the adjacency contains both sides of c and its diagonal, Concave when
\* both sides but not the diagonal, Vertical when the vertical side only,
\* Horizontal when the horizontal side only, Convex when neither; so 0 is
\* Convex and 15 Concave in every corner.
C13_CornerTypeWithoutEdges ==
    \A i \in 1..Len(calls) :
        (calls[i].fn = "get_corner_type" /\ ~intersects(calls[i].arg[1], EDGES)) =>
            LET a == calls[i].arg[1]
                parts == CornerParts(calls[i].arg[2])
                v == contains(a, parts.v)
                h == contains(a, parts.h)
                d == contains(a, parts.d)
            IN
            /\ (v /\ h /\ d) => calls[i].ret = "Flat"
            /\ (v /\ h /\ ~d) => calls[i].ret = "Concave"
            /\ (v /\ ~h) => calls[i].ret = "Vertical"
            /\ (h /\ ~v) => calls[i].ret = "Horizontal"
            /\ (~v /\ ~h) => calls[i].ret = "Convex"
            /\ a = 0 => calls[i].ret = "Convex"
            /\ a = 15 => calls[i].ret = "Concave"

\* get_corner_type was applied to N|S|NE, with no edge bit, in the north
\* east, where only the vertical side is present, and answered Vertical
C13_Witness ==
    /\ Len(calls) = 1
    /\ calls[1] = [fn |-> "get_corner_type",
                   arg |-> <<union(union(N, S), NE), "NorthEast">>,
                   ret |-> "Vertical"]

-----------------------------------------------------------------------------
InnerType(corner) ==
    CASE corner = "NorthEast" -> "TopRightInner"
      [] corner = "SouthEast" -> "BottomRightInner"
      [] corner = "SouthWest" -> "BottomLeftInner"
      [] corner = "NorthWest" -> "TopLeftInner"

OuterType(corner) ==
    CASE corner = "NorthEast" -> "TopRightOuter"
      [] corner = "SouthEast" -> "BottomRightOuter"
      [] corner = "SouthWest" -> "BottomLeftOuter"
      [] corner = "NorthWest" -> "TopLeftOuter"

TwoSides(corner) == union(CornerParts(corner).v, CornerParts(corner).h)
ThreeSides(corner) == union(TwoSides(corner), CornerParts(corner).d)

\* C14: for an adjacency with an EDGES bit, get_corner_type answers by the
\* adjacency without EDGES: the Inner type of the corner whose two sides it
\* is, the Outer type of the corner whose two sides and diagonal it is,
\* Convex for anything else; and every edge variant of
\* CornerDiagonal.output_adjacencies() gets the Inner type (INNER_EDGE) or
\* the Outer type (OUTER_EDGE) of its own corner, never Convex.
C14_CornerTypeWithEdges ==
    \A i \in 1..Len(calls) :
        (calls[i].fn = "get_corner_type" /\ intersects(calls[i].arg[1], EDGES)) =>
            LET a == calls[i].arg[1]
                base == difference(a, EDGES)
                ret == calls[i].ret
            IN
            /\ \A c \in Corners : base = TwoSides(c) => ret = InnerType(c)
            /\ \A c \in Corners : base = ThreeSides(c) => ret = OuterType(c)
            /\ (\A c \in Corners : base # TwoSides(c) /\ base # ThreeSides(c))
                   => ret = "Convex"
            /\ InSeq(CornerDiagonalAdjacencies, a) =>
                   /\ ret # "Convex"
                   /\ contains(a, INNER_EDGE) =>
                          \E c \in Corners : base = TwoSides(c) /\ ret = InnerType(c)
                   /\ contains(a, OUTER_EDGE) =>
                          \E c \in Corners : base = ThreeSides(c) /\ ret = OuterType(c)

\* get_corner_type was applied to the OUTER_EDGE variant of N|E|NE, an
\* adjacency of CornerDiagonal, and answered TopRightOuter in the south west
C14_Witness ==
    /\ Len(calls) = 1
    /\ calls[1] = [fn |-> "get_corner_type",
                   arg |-> <<union(ThreeSides("NorthEast"), OUTER_EDGE), "SouthWest">>,
                   ret |-> "TopRightOuter"]
    /\ InSeq(CornerDiagonalAdjacencies, calls[1].arg[1])

-----------------------------------------------------------------------------
CarriesD(text) ==
    Len(text) >= 2 /\ SubSeq(text, Len(text) - 1, Len(text)) = <<"-", "d">>

PrintThenParse ==
    /\ Len(calls) = 2
    /\ calls[1].fn = "pretty_print"
    /\ calls[2].fn = "from_str"

\* C15: pretty_print gives the decimal of the low 8 bits, followed by "-d"
\* exactly when an EDGES bit is set; from_str of that text gives an
\* Adjacency with the same low 8 bits, with INNER_EDGE set exactly when the
\* text carries "-d", and OUTER_EDGE clear.
C15_TextRoundTrip ==
    /\ \A i \in 1..Len(calls) :
           calls[i].fn = "pretty_print" =>
               calls[i].ret = to_string(calls[i].arg[1] % 256)
                                  \o (IF intersects(calls[i].arg[1], EDGES)
                                      THEN <<"-", "d">> ELSE <<>>)
    /\ PrintThenParse =>
           /\ calls[2].ret \in AllAdjacencies
           /\ calls[2].ret % 256 = calls[1].arg[1] % 256
           /\ contains(calls[2].ret, INNER_EDGE) <=> CarriesD(calls[1].ret)
           /\ ~contains(calls[2].ret, OUTER_EDGE)

\* What the text round trip does give: the low 8 bits, and no edge bit
TextRoundTripLosesEdges ==
    PrintThenParse => calls[2].ret = difference(calls[1].arg[1], EDGES)

-----------------------------------------------------------------------------
\* C18: output_adjacencies() lists, without duplicates and with the base
\* bits ascending, 16 adjacencies for Cardinal (0 to 15), 256 for
\* StandardDiagonal (0 to 255) and 264 for CornerDiagonal: 0 to 255, an
\* INNER_EDGE variant right after each of N|E, S|E, S|W, N|W and no other,
\* an OUTER_EDGE variant right after each of N|E|NE, S|E|SE, S|W|SW,
\* N|W|NW and no other.
C18_OutputAdjacencies ==
    \A i \in 1..Len(calls) :
        calls[i].fn = "output_adjacencies" =>
            LET out == calls[i].ret
                count == Len(out)
                output_type == calls[i].arg[1]
                Base(k) == difference(out[k], EDGES)
            IN
            /\ \A j, k \in 1..count : j # k => out[j] # out[k]
            /\ \A k \in 1..(count - 1) : Base(k) <= Base(k + 1)
            /\ output_type = "Cardinal" => out = [k \in 1..16 |-> k - 1]
            /\ output_type = "StandardDiagonal" => out = [k \in 1..256 |-> k - 1]
            /\ output_type = "CornerDiagonal" =>
                   /\ count = 264
                   /\ SelectSeq(out, LAMBDA a : ~intersects(a, EDGES))
                          = [k \in 1..256 |-> k - 1]
                   /\ \A k \in 1..count :
                          intersects(out[k], EDGES) => k > 1 /\ out[k - 1] = Base(k)
                   /\ {out[k] : k \in {j \in 1..count : contains(out[j], INNER_EDGE)}}
                          = {union(TwoSides(c), INNER_EDGE) : c \in Corners}
                   /\ {out[k] : k \in {j \in 1..count : contains(out[j], OUTER_EDGE)}}
                          = {union(ThreeSides(c), OUTER_EDGE) : c \in Corners}

\* output_adjacencies was applied to CornerDiagonal and gave 264
\* adjacencies, the INNER_EDGE variant of N|E (5) right after 5
C18_Witness ==
    /\ Len(calls) = 1
    /\ calls[1].fn = "output_adjacencies"
    /\ calls[1].arg = <<"CornerDiagonal">>
    /\ Len(calls[1].ret) = 264
    /\ calls[1].ret[6] = union(N, E)
    /\ calls[1].ret[7] = union(union(N, E), INNER_EDGE)

-----------------------------------------------------------------------------
(* Reconstruct on decoded icons                                            *)

ReconstructFinished ==
    /\ pc = "done"
    /\ operation.kind = "BitmaskSliceReconstruct"
    /\ input.kind = "Dmi"

Returned(error) == result.tag = "Err" /\ result.err[1] = error

\* Everything after the first hyphen, or the full name if there is none
SuffixOf(name) ==
    IF find(name, "-") = -1 THEN name ELSE SubSeq(name, find(name, "-") + 2, Len(name))

Selected(self, suffix) ==
    \/ InSeq(self.extract, suffix)
    \/ self.bespoke.some /\ \E i \in 1..Len(self.bespoke.v) : self.bespoke.v[i][1] = suffix

\* A decimal integer that is an Adjacency, optionally with a "-d" suffix
ParsesAsAdjacency(text) ==
    LET number == IF Len(text) >= 2 /\ SubSeq(text, Len(text) - 1, Len(text)) = <<"-", "d">>
                  THEN SubSeq(text, 1, Len(text) - 2)
                  ELSE text
    IN /\ Len(number) > 0
       /\ \A i \in 1..Len(number) : IsDigit(number[i])
       /\ DigitsValue(number) \in AllAdjacencies

\* The suffixes of the states that are neither selected nor parseable, in
\* the icon's order
DroppedSuffixes(self, states) ==
    SelectSeq([k \in 1..Len(states) |-> SuffixOf(states[k].name)],
              LAMBDA suffix : ~Selected(self, suffix) /\ ~ParsesAsAdjacency(suffix))

Parenthesised(texts) == [k \in 1..Len(texts) |-> <<"(">> \o texts[k] \o <<")">>]

ScenarioE ==
    /\ input = DmiIcon(Append(NumberedStates(Some(prefix_text), 16),
                              DmiState(decoration_text, 1, 1, NoDelay)))
    /\ operation.self = [extract |-> Numbers(16), bespoke |-> None, set |-> None]

\* C11: once the prefixes are found consistent, Reconstruct returns
\* DroppedStates exactly when some state is neither selected nor parseable
\* as an Adjacency, and lists those states as "(suffix)" joined by ", ";
\* for the states prefix-0 .. prefix-15 and decoration with extract "0" ..
\* "15" and no bespoke it returns DroppedStates("(decoration)").
C11_DroppedStates ==
    /\ (ReconstructFinished /\ ~Returned("InconsistentPrefixes"))
       => LET dropped == DroppedSuffixes(operation.self, input.icon.states) IN
          IF Len(dropped) > 0
          THEN result = Err(<<"DroppedStates",
                              join(Parenthesised(dropped), CommaSpace).v>>)
          ELSE ~Returned("DroppedStates")
    /\ (ReconstructFinished /\ ScenarioE)
       => result = Err(<<"DroppedStates", <<"(">> \o decoration_text \o <<")">>>>)

\* The dropped states are reported as C11 says whenever no unselected
\* suffix begins with the letter d
DroppedStatesWithoutLeadingD ==
    (/\ ReconstructFinished
     /\ ~Returned("InconsistentPrefixes")
     /\ \A k \in 1..Len(input.icon.states) :
            LET suffix == SuffixOf(input.icon.states[k].name) IN
            Len(suffix) > 0 => suffix[1] # "d")
    => LET dropped == DroppedSuffixes(operation.self, input.icon.states) IN
       IF Len(dropped) > 0
       THEN result = Err(<<"DroppedStates", join(Parenthesised(dropped), CommaSpace).v>>)
       ELSE ~Returned("DroppedStates")

\* A state whose suffix begins with the letter d ends Reconstruct in a panic
ScenarioEPanics == (ReconstructFinished /\ ScenarioE) => result = Panicked

-----------------------------------------------------------------------------
\* C16: Reconstruct always ends with a payload or one of its errors, it
\* never aborts, whatever the names, dirs, frames and delays of the icon
\* and whatever extract, bespoke and set hold.
C16_ReconstructTotal ==
    (pc = "done" /\ operation.kind = "BitmaskSliceReconstruct") => result.tag \in {"Ok", "Err"}

StatesOf(in) == in.icon.states

\* The aborts met: a suffix beginning with the letter d ...
PanicOnLeadingD ==
    /\ ReconstructFinished
    /\ result = Panicked
    /\ \E k \in 1..Len(StatesOf(input)) :
           SuffixOf(StatesOf(input)[k].name) = decoration_text

\* ... a number of directions count_to_strategy has no strategy for ...
PanicOnStrategy ==
    /\ ReconstructFinished
    /\ result = Panicked
    /\ Len(StatesOf(input)) = 1
    /\ StatesOf(input)[1].dirs = 2

\* ... no directions at all, for chunks(0) ...
PanicOnNoDirs ==
    /\ ReconstructFinished
    /\ result = Panicked
    /\ Len(StatesOf(input)) = 1
    /\ StatesOf(input)[1].dirs = 0

\* ... and a delay that outlasts the canonical delays, for real_delays[len]
PanicOnDelayIndex ==
    /\ ReconstructFinished
    /\ result = Panicked
    /\ Len(StatesOf(input)) = 2
    /\ StatesOf(input)[1].delay = SomeDelay(<<1, 1, 1, 1>>)
    /\ StatesOf(input)[2].delay = SomeDelay(<<4, 4>>)

-----------------------------------------------------------------------------
Hyphened(name) == find(name, "-") # -1

PrefixOf(name) == SubSeq(name, 1, find(name, "-"))

\* The text before the first hyphen of the first name, if it has a hyphen
DetectedPrefix(states) ==
    IF Len(states) > 0 /\ Hyphened(states[1].name)
    THEN Some(PrefixOf(states[1].name))
    ELSE None

\* The names with a hyphen whose prefix is not the detected one, no
\* detected prefix counting as the empty text
Offenders(states) ==
    SelectSeq([k \in 1..Len(states) |-> states[k].name],
              LAMBDA name : /\ Hyphened(name)
                            /\ PrefixOf(name) # unwrap_or_default(DetectedPrefix(states)))

\* The prefix phase as the code has it
PrefixOffendersReported ==
    /\ ReconstructFinished =>
           IF Len(Offenders(StatesOf(input))) > 0
           THEN result = Err(<<"InconsistentPrefixes",
                               join(Offenders(StatesOf(input)), CommaSpace).v>>)
           ELSE ~Returned("InconsistentPrefixes")
    /\ (operation.kind = "BitmaskSliceReconstruct" /\ pc \in {"paint", "config"})
           => locals.output_prefix = DetectedPrefix(StatesOf(input))

\* No name but those of edge states, a number followed by "-d", has a hyphen
UnprefixedWithEdgeStates(states) ==
    /\ \E k \in 1..Len(states) : Hyphened(states[k].name)
    /\ \A k \in 1..Len(states) :
           Hyphened(states[k].name) =>
               /\ CarriesD(states[k].name)
               /\ ParsesAsAdjacency(states[k].name)
               /\ k > 1

\* C19: the detected prefix is the text before the first hyphen of the
\* first state's name, none if that name has no hyphen; Reconstruct
\* returns InconsistentPrefixes, listing the offending names joined by
\* ", ", exactly when a name with a hyphen has another prefix than the
\* detected one; and an unprefixed icon with edge states such as "5-d"
\* passes this phase.
C19_PrefixValidation ==
    /\ PrefixOffendersReported
    /\ (ReconstructFinished /\ UnprefixedWithEdgeStates(StatesOf(input)))
           => ~Returned("InconsistentPrefixes")

\* Reconstruct refuses the unprefixed states "0", "5", "5-d" for their prefixes
EdgeStateRefused ==
    (/\ ReconstructFinished
     /\ [k \in 1..Len(StatesOf(input)) |-> StatesOf(input)[k].name]
            = <<<<"0">>, <<"5">>, <<"5", "-", "d">>>>)
    => result = Err(<<"InconsistentPrefixes", <<"5", "-", "d">>>>)

EdgeStateTried ==
    /\ ReconstructFinished
    /\ [k \in 1..Len(StatesOf(input)) |-> StatesOf(input)[k].name]
           = <<<<"0">>, <<"5">>, <<"5", "-", "d">>>>

-----------------------------------------------------------------------------
StateNamed(name) ==
    StatesOf(input)[CHOOSE k \in 1..Len(StatesOf(input)) : StatesOf(input)[k].name = name]

\* Two animated states, "0" with the longest delay list and "1" with a
\* shorter one
DelayCase ==
    /\ ReconstructFinished
    /\ {StatesOf(input)[k].name : k \in 1..Len(StatesOf(input))} = {<<"0">>, <<"1">>}
    /\ Len(StatesOf(input)) = 2
    /\ StateNamed(<<"0">>).delay.some
    /\ StateNamed(<<"1">>).delay.some
    /\ Len(StateNamed(<<"1">>).delay.v) < Len(StateNamed(<<"0">>).delay.v)

\* The times at which a frame of the delay list ends, and 0
Boundaries(ds) == {SumSeq(SubSeq(ds, 1, k)) : k \in 0..Len(ds)}

LandsOnBoundaries(ds, canonical) == Boundaries(ds) \subseteq Boundaries(canonical)

Aligned(ds, canonical) ==
    LandsOnBoundaries(ds, canonical) /\ SumSeq(ds) = SumSeq(canonical)

\* The frame of the delay list that is shown during canonical step y + 1
CoveringFrame(ds, canonical, y) ==
    CHOOSE f \in 1..Len(ds) :
        /\ SumSeq(SubSeq(ds, 1, f - 1)) <= SumSeq(SubSeq(canonical, 1, y))
        /\ SumSeq(SubSeq(canonical, 1, y)) < SumSeq(SubSeq(ds, 1, f))

ReportedForDelays ==
    IF Returned("InconsistentDelays")
    THEN {result.err[3][k].state : k \in 1..Len(result.err[3])}
    ELSE {}

\* C20: a state whose delays differ from the canonical, longest, delay list
\* is reported as InconsistentDelay exactly when one of its cumulative
\* delays does not land on a boundary of the canonical delays; when each
\* of its delays is the sum of a run of canonical delays and the totals
\* agree, it is not reported and is painted in as many rows as the longest
\* state has frames, each frame once per canonical step it covers.
C20_DelayReconciliation ==
    DelayCase =>
        LET canonical == StateNamed(<<"0">>).delay.v
            ds == StateNamed(<<"1">>).delay.v
        IN
        /\ (<<"1">> \in ReportedForDelays) <=> ~LandsOnBoundaries(ds, canonical)
        /\ Aligned(ds, canonical) =>
               /\ result.tag = "Ok"
               /\ result.v.image.h = Len(canonical)
               /\ \A y \in 0..(Len(canonical) - 1) :
                      get_pixel(result.v.image, 1, y) = CoveringFrame(ds, canonical, y)

\* What the code does: it reports the shorter list exactly when its total
\* is that of the canonical delays, or some delay of it ends inside a
\* canonical step; it aborts when the total is larger and every delay
\* ends on a boundary; a shorter total on boundaries is painted in fewer rows
DelaysAsCoded ==
    DelayCase =>
        LET canonical == StateNamed(<<"0">>).delay.v
            ds == StateNamed(<<"1">>).delay.v
            inside == \E k \in 1..Len(ds) :
                          /\ SumSeq(SubSeq(ds, 1, k)) \notin Boundaries(canonical)
                          /\ SumSeq(SubSeq(ds, 1, k)) < SumSeq(canonical)
                          /\ \A j \in 1..(k - 1) :
                                 SumSeq(SubSeq(ds, 1, j)) \in Boundaries(canonical)
        IN
        IF SumSeq(ds) = SumSeq(canonical) \/ inside
        THEN <<"1">> \in ReportedForDelays
        ELSE IF SumSeq(ds) > SumSeq(canonical) THEN result = Panicked
        ELSE result.tag = "Ok"

\* The delays [2, 2] against [1, 1, 1, 1] are reported
AlignedReported ==
    /\ DelayCase
    /\ StateNamed(<<"0">>).delay.v = <<1, 1, 1, 1>>
    /\ StateNamed(<<"1">>).delay.v = <<2, 2>>
    /\ result = Err(<<"InconsistentDelays", <<1, 1, 1, 1>>,
                      <<[state |-> <<"1">>, delays |-> <<2, 2>>]>>>>)

-----------------------------------------------------------------------------
(* Reconstruct on icons whose states are in any order, every image of the  *)
(* icon of a colour of its own, so that the atlas shows where each image   *)
(* was painted.                                                            *)

OrderNames == <<<<"0">>, <<"1">>, trim_text, window_text, <<"a", "-", "0">>>>

NameIndex(name) == CHOOSE n \in 1..Len(OrderNames) : OrderNames[n] = name

\* The colour of image k of the state: 100 times the index of its name, and k
ColourOf(name, k) == 100 * NameIndex(name) + k

ColouredState(name, dirs, frames, delay) ==
    [name |-> name, dirs |-> dirs, frames |-> frames,
     images |-> Vec([k \in 1..(dirs * frames) |-> Frame(ColourOf(name, k))]),
     delay |-> delay, rewind |-> FALSE]

Orders(count) == {p \in [1..count -> 1..count] : \A i, j \in 1..count : p[i] = p[j] => i = j}

\* The states named by the first count names in the order given, after a
\* state "a-0" if there is to be one
OrderIcon(count, order, lead, dirs, delay) ==
    DmiIcon((IF lead THEN <<ColouredState(OrderNames[5], dirs, FramesOf(delay), delay)>>
             ELSE <<>>)
            \o [k \in 1..count |->
                   ColouredState(OrderNames[order[k]], dirs, FramesOf(delay), delay)])

OrderExtracts ==
    {<<<<"0">>, <<"1">>>>, <<<<"1">>, <<"0">>>>, <<<<"0">>, <<"9">>, <<"1">>>>}

OrderBespokes ==
    {Some(<<<<window_text, <<"w">>>>, <<trim_text, <<"t">>>>>>),
     Some(<<<<trim_text, <<"t">>>>, <<window_text, <<"w">>>>>>)}

\* The states "0", "1", trim, window in every order with trim and window
\* bespoke in both orders; the states "0", "1" with and without trim and
\* no bespoke; one or four dirs, one or two frames
OrderRuns ==
    {ReconstructRun(extract, bespoke, None, OrderIcon(4, order, lead, dirs, delay)) :
        extract \in OrderExtracts, bespoke \in OrderBespokes, order \in Orders(4),
        lead \in BOOLEAN, dirs \in {1, 4}, delay \in {NoDelay, SomeDelay(<<1, 1>>)}}
    \cup
    {ReconstructRun(extract, None, None, OrderIcon(Len(order), order, lead, dirs, delay)) :
        extract \in OrderExtracts, order \in Orders(2) \cup Orders(3),
        lead \in BOOLEAN, dirs \in {1, 4}, delay \in {NoDelay, SomeDelay(<<1, 1>>)}}

InitOrder ==
    /\ calls = <<>>
    /\ history = <<>>
    /\ pc = "start"
    /\ locals = NoLocals
    /\ result = NoResult
    /\ mode = "Standard"
    /\ \E run \in OrderRuns :
           /\ operation = [kind |-> "BitmaskSliceReconstruct", self |-> run.self]
           /\ input = run.input

SpecOrder == InitOrder /\ [][NextReconstruct]_vars

-----------------------------------------------------------------------------
(* hypnagogic_cli/src/main.rs: process_icon, the driver run on one         *)
(* configuration file.  calls[1] is the call of process_icon with its      *)
(* arguments; the entries after it are the calls it makes on the file      *)
(* system, in order.  operation, input and mode hold what the              *)
(* configuration file, the icon file beside it and the debug flag give.    *)

\* The input icon is icons/wall.<extension>, its configuration the same
\* path with .toml after it
InputParent == "icons"
InputStem == "wall"

\* OutputImage::extension and OutputText::extension
extension(output) ==
    CASE output.kind = "Dmi" -> "dmi"
      [] output.kind = "Png" -> "png"
      [] output.kind = "Text" -> "toml"

\* NamedIcon::build_path: the path hint and the name after the input's own
build_path(named) == [stem |-> InputStem, hint |-> Some(named.path_hint), name |-> Some(named.name)]

\* The closure process_path of handle_payload, with set_extension applied
process_path(named_img, output_at, flatten, output) ==
    [root |-> output_at,
     parent |-> IF flatten THEN None ELSE Some(InputParent),
     file |-> IF named_img.some THEN build_path(named_img.v)
              ELSE [stem |-> InputStem, hint |-> None, name |-> None],
     extension |-> extension(output)]

\* handle_payload: the paths to write with what goes to each, in order
handle_payload(payload, output_at, flatten) ==
    CASE payload.payload = "Single" ->
            LET inner == [kind |-> "Dmi", icon |-> payload.icon] IN
            <<[path |-> process_path(None, output_at, flatten, inner), output |-> inner]>>
      [] payload.payload = "MultipleNamed" ->
            [k \in 1..(Len(payload.out) + 1) |->
                LET named == IF k <= Len(payload.out)
                             THEN [path_hint |-> payload.out[k].path_hint,
                                   name |-> payload.out[k].name,
                                   image |-> [kind |-> "Png", img |-> payload.out[k].image]]
                             ELSE [path_hint |-> "", name |-> <<>>,
                                   image |-> [kind |-> "Dmi", icon |-> payload.icon]]
                IN [path |-> process_path(Some(named), output_at, flatten, named.image),
                    output |-> named.image]]
      [] payload.payload = "ConfigWrapped" ->
            LET text == [kind |-> "Text", config |-> payload.config]
                inner == [kind |-> "Png", img |-> payload.image]
            IN <<[path |-> process_path(None, output_at, flatten, text), output |-> text],
                 [path |-> process_path(None, output_at, flatten, inner), output |-> inner]>>

\* What reading the configuration and the icon may end in, before the
\* operation is run
ReadOutcomes ==
    {"Ok", "Io", "NoTemplateFolder", "TemplateNotFound", "InvalidConfig",
     "InputNotFound", "InputError"}

FsCall(fn, arg, ret) == [fn |-> fn, arg |-> arg, ret |-> ret]

InProcessIcon == Len(calls) >= 1 /\ calls[1].fn = "process_icon"

\* From File::open of the configuration to InputIcon::from_reader
ProcessIconRead ==
    /\ pc = "open"
    /\ InProcessIcon
    /\ \E outcome \in ReadOutcomes :
           IF outcome = "Ok"
           THEN pc' = "start" /\ UNCHANGED result
           ELSE pc' = "exit" /\ result' = Err(<<outcome>>)
    /\ UNCHANGED <<calls, operation, input, mode, locals, history>>

\* do_operation(..)? has returned: its error is passed on; else the output
\* directory is made and the payload turned into paths
ProcessIconOutput ==
    /\ pc = "done"
    /\ InProcessIcon
    /\ LET args == calls[1].arg IN
       IF result.tag # "Ok"
       THEN /\ pc' = "exit"
            /\ UNCHANGED <<calls, result, locals>>
       ELSE \E made \in IF args.output.some THEN {"Ok", "Err"} ELSE {"None"} :
                /\ calls' = IF args.output.some
                            THEN Append(calls, FsCall("create_dir_all", args.output.v, made))
                            ELSE calls
                /\ IF made = "Err"
                   THEN /\ pc' = "exit"
                        /\ result' = Err(<<"Io">>)
                        /\ UNCHANGED locals
                   ELSE /\ pc' = "write"
                        /\ locals' = [at |-> "writing",
                                      out_paths |-> handle_payload(result.v, args.output,
                                                                   args.flatten),
                                      next |-> 1]
                        /\ UNCHANGED result
    /\ UNCHANGED <<operation, input, mode, history>>

\* What one pass of the loop over out_paths may end in
WriteOutcomes(output) ==
    IF output.kind = "Text" THEN {"Ok", "DirsPanic", "CreatePanic", "WritePanic"}
    ELSE {"Ok", "DirsPanic", "CreatePanic", "SaveErr"}

\* One pass of the loop over out_paths: the parent directory, the file,
\* its contents
ProcessIconWrite ==
    /\ pc = "write"
    /\ InProcessIcon
    /\ IF locals.next > Len(locals.out_paths)
       THEN /\ pc' = "exit"
            /\ result' = Ok(<<>>)
            /\ UNCHANGED <<calls, locals>>
       ELSE LET entry == locals.out_paths[locals.next]
                dirs == [root |-> entry.path.root, parent |-> entry.path.parent,
                         hint |-> entry.path.file.hint]
            IN
            \E outcome \in WriteOutcomes(entry.output) :
                /\ calls' =
                       calls
                       \o <<FsCall("create_dir_all", dirs,
                                   IF outcome = "DirsPanic" THEN "Panic" ELSE "Ok")>>
                       \o (IF outcome = "DirsPanic" THEN <<>>
                           ELSE <<FsCall("File::create", entry.path,
                                         IF outcome = "CreatePanic" THEN "Panic" ELSE "Ok")>>)
                       \o (IF outcome \in {"DirsPanic", "CreatePanic"} THEN <<>>
                           ELSE <<FsCall(IF entry.output.kind = "Text" THEN "fs::write"
                                         ELSE "save",
                                         entry.path,
                                         CASE outcome = "Ok" -> "Ok"
                                           [] outcome = "SaveErr" -> "Err"
                                           [] outcome = "WritePanic" -> "Panic")>>)
                /\ IF outcome = "Ok"
                   THEN /\ locals' = [locals EXCEPT !.next = locals.next + 1]
                        /\ UNCHANGED <<pc, result>>
                   ELSE /\ pc' = "exit"
                        /\ result' = IF outcome = "SaveErr" THEN Err(<<"OutputError">>)
                                     ELSE Panicked
                        /\ UNCHANGED locals
    /\ UNCHANGED <<operation, input, mode, history>>

NextProcessIcon ==
    \/ ProcessIconRead
    \/ SliceValidate
    \/ SliceGenerate
    \/ SliceOutput
    \/ ReconstructSelect
    \/ ReconstructPaint
    \/ ReconstructConfig
    \/ ProcessIconOutput
    \/ ProcessIconWrite

\* The configurations and icons process_icon is run on: Slice in both
\* modes, on an atlas and on a .dmi; Reconstruct on icons it accepts,
\* refuses and aborts on
ProcessIconRuns ==
    LET cardinal == BaseSlice("Cardinal", "Standard", Point(2, 2), Point(1, 1)) IN
    {[kind |-> "BitmaskSlice", self |-> cardinal,
      input |-> FullAtlas(cardinal, "unique", 1), mode |-> m] : m \in {"Standard", "Debug"}}
    \cup {[kind |-> "BitmaskSlice", self |-> cardinal,
           input |-> DmiIcon(NumberedStates(None, 2)), mode |-> "Standard"]}
    \cup {[kind |-> "BitmaskSliceReconstruct",
           self |-> [extract |-> Numbers(2), bespoke |-> None, set |-> None],
           input |-> DmiIcon(states), mode |-> "Standard"] :
             states \in {NumberedStates(Some(prefix_text), 2),
                         Append(NumberedStates(Some(prefix_text), 2),
                                DmiState(trim_text, 1, 1, NoDelay)),
                         <<DmiState(<<"0">>, 2, 1, NoDelay)>>}}

InitProcessIcon ==
    /\ history = <<>>
    /\ pc = "open"
    /\ locals = NoLocals
    /\ result = NoResult
    /\ \E run \in ProcessIconRuns, flatten \in BOOLEAN, output \in {None, Some("out")} :
           /\ calls = <<FsCall("process_icon",
                               [flatten |-> flatten, debug |-> run.mode = "Debug",
                                output |-> output],
                               "running")>>
           /\ operation = [kind |-> run.kind, self |-> run.self]
           /\ input = run.input
           /\ mode = run.mode

SpecProcessIcon == InitProcessIcon /\ [][NextProcessIcon]_vars

-----------------------------------------------------------------------------
FilesCreated ==
    {calls[i].arg : i \in {j \in 1..Len(calls) :
                              calls[j].fn = "File::create" /\ calls[j].ret = "Ok"}}

EndedInError == pc = "exit" /\ result.tag = "Err"

\* C17: when process_icon ends with an error, no output file of the input
\* has been created or written; an error of the operation is returned
\* before any output path is created.
C17_NoPartialOutputs ==
    /\ EndedInError => FilesCreated = {}
    /\ (InProcessIcon /\ pc \notin {"write", "exit"}) => Len(calls) = 1

\* Until the operation has returned a payload process_icon touches no
\* output path, and it passes the operation's error on having created none
OperationErrorBeforeOutputs ==
    /\ (InProcessIcon /\ pc \notin {"write", "exit"}) => Len(calls) = 1
    /\ (EndedInError /\ result.err[1] \notin {"Io", "OutputError"}) => Len(calls) = 1
    /\ (EndedInError /\ result.err[1] = "Io") => FilesCreated = {}

\* An error in saving the second output leaves the first one written and
\* the second one created
SavedThenFailed ==
    /\ EndedInError
    /\ result.err[1] = "OutputError"
    /\ Cardinality(FilesCreated) = 2
    /\ \E i \in 1..Len(calls) : calls[i].fn = "fs::write" /\ calls[i].ret = "Ok"

-----------------------------------------------------------------------------
(* The errors of Reconstruct and their order                               *)

SelectedStates(self, states) ==
    SelectSeq(states, LAMBDA state : Selected(self, SuffixOf(state.name)))

MostDirections(selected) == MaxOr([k \in 1..Len(selected) |-> selected[k].dirs], 1)

\* The delay lists of the selected states that no other outlasts
LongestDelays(selected) ==
    {selected[k].delay.v : k \in {i \in 1..Len(selected) :
        /\ selected[i].delay.some
        /\ \A j \in 1..Len(selected) :
               selected[j].delay.some
                   => Len(selected[j].delay.v) <= Len(selected[i].delay.v)}}

\* The delays of a state, a state without delays lasting as long as the
\* canonical delays together
DelaysAgainst(state, canonical) ==
    IF state.delay.some THEN state.delay.v ELSE <<SumSeq(canonical)>>

\* A state has a delay problem when its delays are not the canonical ones
\* and one of them ends inside a canonical step or after the last
HasDelayProblem(state, canonical) ==
    /\ state.delay # SomeDelay(canonical)
    /\ ~LandsOnBoundaries(DelaysAgainst(state, canonical), canonical)

ReportedForDirs ==
    IF Returned("InconsistentDirs")
    THEN {result.err[3][k].state : k \in 1..Len(result.err[3])}
    ELSE {}

NamesOf(states) == {SuffixOf(states[k].name) : k \in 1..Len(states)}

\* The icons whose first states are "0", "1", "2", all three extracted
ErrorCase ==
    /\ ReconstructFinished
    /\ operation.self.extract = <<<<"0">>, <<"1">>, <<"2">>>>
    /\ Len(StatesOf(input)) >= 3
    /\ \A k \in 1..3 : StatesOf(input)[k].name = to_string(k - 1)

\* C21: Reconstruct returns the first of InconsistentPrefixes,
\* DroppedStates, InconsistentDelays, InconsistentDirs that applies;
\* InconsistentDelays lists every selected state with a delay problem,
\* InconsistentDirs every selected state whose dirs is not most_directions,
\* and InconsistentDelays is returned when both kinds exist.
C21_ErrorPrecedence ==
    ErrorCase =>
        LET self == operation.self
            states == StatesOf(input)
            selected == SelectedStates(self, states)
            most_directions == MostDirections(selected)
            off == SelectSeq(selected, LAMBDA state : state.dirs # most_directions)
        IN
        IF Len(Offenders(states)) > 0 THEN Returned("InconsistentPrefixes")
        ELSE IF Len(DroppedSuffixes(self, states)) > 0 THEN Returned("DroppedStates")
        ELSE IF \E canonical \in LongestDelays(selected) :
                    \E k \in 1..Len(selected) : HasDelayProblem(selected[k], canonical)
        THEN /\ Returned("InconsistentDelays")
             /\ \E canonical \in LongestDelays(selected) :
                    /\ result.err[2] = canonical
                    /\ ReportedForDelays =
                           NamesOf(SelectSeq(selected, LAMBDA state :
                                                 HasDelayProblem(state, canonical)))
        ELSE IF Len(off) > 0
        THEN /\ Returned("InconsistentDirs")
             /\ result.err[2] = most_directions
             /\ ReportedForDirs = NamesOf(off)
        ELSE result.tag # "Err"

\* The delay list the reduce of the code keeps: the last of the longest
LastLongest(selected) ==
    selected[CHOOSE i \in 1..Len(selected) :
                 /\ selected[i].delay.some
                 /\ \A j \in 1..Len(selected) :
                        selected[j].delay.some =>
                            \/ Len(selected[j].delay.v) < Len(selected[i].delay.v)
                            \/ Len(selected[j].delay.v) = Len(selected[i].delay.v) /\ j <= i
            ].delay.v

\* The test the loop makes on a state it does not skip: the totals agree,
\* or a delay ends inside a canonical step
RecordedForDelays(state, canonical) ==
    LET ds == DelaysAgainst(state, canonical) IN
    /\ state.delay # SomeDelay(canonical)
    /\ \/ SumSeq(ds) = SumSeq(canonical)
       \/ \E k \in 1..Len(ds) :
              /\ SumSeq(SubSeq(ds, 1, k)) \notin Boundaries(canonical)
              /\ SumSeq(SubSeq(ds, 1, k)) < SumSeq(canonical)
              /\ \A j \in 1..(k - 1) : SumSeq(SubSeq(ds, 1, j)) \in Boundaries(canonical)

\* What the code does when it does not abort: the four errors come in the
\* order of C21, and a state whose dirs is not most_directions is listed
\* for its dirs only, its delays are never looked at
PrecedenceAsCoded ==
    (ErrorCase /\ result.tag # "Panic") =>
        LET self == operation.self
            states == StatesOf(input)
            selected == SelectedStates(self, states)
            most_directions == MostDirections(selected)
            off == SelectSeq(selected, LAMBDA state : state.dirs # most_directions)
            on == SelectSeq(selected, LAMBDA state : state.dirs = most_directions)
            delayed == IF LongestDelays(selected) = {} THEN <<>>
                       ELSE SelectSeq(on, LAMBDA state :
                                RecordedForDelays(state, LastLongest(selected)))
        IN
        IF Len(Offenders(states)) > 0 THEN Returned("InconsistentPrefixes")
        ELSE IF Len(DroppedSuffixes(self, states)) > 0 THEN Returned("DroppedStates")
        ELSE IF Len(delayed) > 0
        THEN /\ Returned("InconsistentDelays")
             /\ result.err[2] = LastLongest(selected)
             /\ ReportedForDelays = NamesOf(delayed)
        ELSE IF Len(off) > 0
        THEN /\ Returned("InconsistentDirs")
             /\ result.err[2] = most_directions
             /\ ReportedForDirs = NamesOf(off)
        ELSE result.tag = "Ok"

\* State "2" has one dir where the others have four, and the delays
\* [1, 1] against [2, 1, 1] as state "1" has: only "1" is listed
DelayProblemBehindDirs ==
    /\ ErrorCase
    /\ Len(StatesOf(input)) = 3
    /\ StatesOf(input)[1].dirs = 4 /\ StatesOf(input)[1].delay = SomeDelay(<<2, 1, 1>>)
    /\ StatesOf(input)[2].dirs = 4 /\ StatesOf(input)[2].delay = SomeDelay(<<1, 1>>)
    /\ StatesOf(input)[3].dirs = 1 /\ StatesOf(input)[3].delay = SomeDelay(<<1, 1>>)
    /\ result = Err(<<"InconsistentDelays", <<2, 1, 1>>,
                      <<[state |-> <<"1">>, delays |-> <<1, 1>>]>>>>)

\* State "1" has a delay problem and state "2" outlasts the canonical
\* delays: the loop aborts on "2" and no error is returned
AbortAfterProblem ==
    /\ ErrorCase
    /\ Len(StatesOf(input)) = 3
    /\ \A k \in 1..3 : StatesOf(input)[k].dirs = 1
    /\ StatesOf(input)[1].delay = SomeDelay(<<2, 1, 1>>)
    /\ StatesOf(input)[2].delay = SomeDelay(<<1, 1>>)
    /\ StatesOf(input)[3].delay = SomeDelay(<<4, 4>>)
    /\ result = Panicked

-----------------------------------------------------------------------------
(* The columns of the atlas Reconstruct paints                             *)

ReconstructGave == ReconstructFinished /\ result.tag = "Ok"

\* extract, then the keys of bespoke, in their listed order
CombinedOrder(self) ==
    self.extract \o (IF self.bespoke.some
                     THEN [k \in 1..Len(self.bespoke.v) |-> self.bespoke.v[k][1]]
                     ELSE <<>>)

PositionIn(names, name) == CHOOSE i \in 1..Len(names) : names[i] = name

\* The places of the atlas that show the colour
PlacesOf(image, colour) ==
    {place \in (0..(image.w - 1)) \X (0..(image.h - 1)) :
        get_pixel(image, place[1], place[2]) = colour}

\* The column in which the state was painted: where its first image,
\* frame 0 of direction 0, is in the top row
PaintedColumns(image, state) ==
    {place[1] : place \in {p \in PlacesOf(image, ColourOf(state.name, 1)) : p[2] = 0}}

\* s comes before t in the combined order
Precedes(self, s, t) ==
    PositionIn(CombinedOrder(self), SuffixOf(s.name))
        < PositionIn(CombinedOrder(self), SuffixOf(t.name))

\* C22: the selected states are painted in columns ordered by the position
\* of their suffix in extract, then the bespoke states in the listed order
\* of bespoke, whatever the order of the states in the icon.
C22_ColumnOrder ==
    ReconstructGave =>
        LET selected == SelectedStates(operation.self, StatesOf(input)) IN
        \A i, j \in 1..Len(selected) :
            Precedes(operation.self, selected[i], selected[j]) =>
                /\ PaintedColumns(result.v.image, selected[i]) # {}
                /\ PaintedColumns(result.v.image, selected[j]) # {}
                /\ \A x \in PaintedColumns(result.v.image, selected[i]) :
                       \A y \in PaintedColumns(result.v.image, selected[j]) : x < y

IsBespoke(self, state) ==
    self.bespoke.some /\ StringMapGet(self.bespoke.v, SuffixOf(state.name)).some

\* What the code does: the extracted states come in the order of extract
\* and before the bespoke ones, the bespoke states in the order they have
\* in the icon
ColumnsAsCoded ==
    ReconstructGave =>
        LET self == operation.self
            states == StatesOf(input)
            selected == SelectedStates(self, states)
            before(i, j) ==
                IF IsBespoke(self, selected[i]) /\ IsBespoke(self, selected[j])
                THEN i < j /\ SuffixOf(selected[i].name) # SuffixOf(selected[j].name)
                ELSE Precedes(self, selected[i], selected[j])
        IN
        \A i, j \in 1..Len(selected) :
            before(i, j) =>
                \A x \in PaintedColumns(result.v.image, selected[i]) :
                    \A y \in PaintedColumns(result.v.image, selected[j]) : x < y

\* bespoke lists window before trim, the icon has trim before window, and
\* trim is painted left of window
BespokeInIconOrder ==
    /\ ReconstructGave
    /\ operation.self.bespoke = Some(<<<<window_text, <<"w">>>>, <<trim_text, <<"t">>>>>>)
    /\ operation.self.extract = <<<<"0">>, <<"1">>>>
    /\ [k \in 1..Len(StatesOf(input)) |-> StatesOf(input)[k].name]
           = <<<<"0">>, <<"1">>, trim_text, window_text>>
    /\ StatesOf(input)[1].dirs = 1
    /\ StatesOf(input)[1].frames = 1
    /\ result.v.image.px = <<101, 201, 301, 401>>

-----------------------------------------------------------------------------
\* The entries the configuration text has under [prefabs]
PrefabEntries(config, count) ==
    LET header == CHOOSE h \in 1..Len(config) : config[h] = HeaderLine("prefabs")
    IN SubSeq(config, header + 1, header + count)

StatesWithSuffix(states, suffix) ==
    SelectSeq(states, LAMBDA state : SuffixOf(state.name) = suffix)

\* C23: the [prefabs] table of the configuration text numbers the entries
\* of bespoke from extract.len() on, one after the other, and the number
\* of an entry is the column of the atlas its state was painted in.
C23_PrefabIndices ==
    (ReconstructGave /\ operation.self.bespoke.some) =>
        LET self == operation.self
            bespoke == self.bespoke.v
            entries == PrefabEntries(result.v.config, Len(bespoke))
        IN
        \A k \in 1..Len(bespoke) :
            /\ entries[k] = EntryLine(bespoke[k][2], to_string(Len(self.extract) + k - 1))
            /\ \A n \in 1..Len(StatesWithSuffix(StatesOf(input), bespoke[k][1])) :
                   PaintedColumns(result.v.image,
                                  StatesWithSuffix(StatesOf(input), bespoke[k][1])[n])
                       = {DigitsValue(entries[k].entry_value)}

\* What the code does: the entries are numbered from the number of selected
\* states that are not bespoke, in the listed order of bespoke
PrefabsAsCoded ==
    (ReconstructGave /\ operation.self.bespoke.some) =>
        LET self == operation.self
            bespoke == self.bespoke.v
            selected == SelectedStates(self, StatesOf(input))
            extracted == SelectSeq(selected, LAMBDA state : ~IsBespoke(self, state))
            entries == PrefabEntries(result.v.config, Len(bespoke))
        IN
        \A k \in 1..Len(bespoke) :
            entries[k] = EntryLine(bespoke[k][2], to_string(Len(extracted) + k - 1))

\* extract lists "9", which the icon does not have: the table starts at 2
\* where extract has three entries
PrefabsBelowExtract ==
    /\ ReconstructGave
    /\ operation.self.extract = <<<<"0">>, <<"9">>, <<"1">>>>
    /\ operation.self.bespoke = Some(<<<<trim_text, <<"t">>>>, <<window_text, <<"w">>>>>>)
    /\ PrefabEntries(result.v.config, 2)
           = <<EntryLine(<<"t">>, <<"2">>), EntryLine(<<"w">>, <<"3">>)>>

\* window is numbered 2 and is painted in column 3
PrefabNotItsColumn ==
    /\ BespokeInIconOrder
    /\ PrefabEntries(result.v.config, 2)
           = <<EntryLine(<<"w">>, <<"2">>), EntryLine(<<"t">>, <<"3">>)>>
    /\ PaintedColumns(result.v.image, StatesOf(input)[4]) = {3}

-----------------------------------------------------------------------------
\* The states of the icon all have the dirs and frames of the first
Dirs == StatesOf(input)[1].dirs
Frames == StatesOf(input)[1].frames

\* C24: the atlas is icon.width * N * most_directions wide and the columns
\* of direction i start at i * N * icon.width with the same N: every image
\* of every selected state, frame y of direction i of the state in column
\* x, is painted at (x + i * N, y) inside the atlas and no other image is
\* painted over it, also when extract lists a suffix the icon does not
\* have or two states have the same suffix.
C24_PaintBounds ==
    (ReconstructFinished /\ result.tag # "Err") =>
        /\ result.tag = "Ok"
        /\ LET selected == SelectedStates(operation.self, StatesOf(input))
               stride == result.v.image.w \div Dirs
           IN
           /\ result.v.image.w = stride * Dirs
           /\ result.v.image.h = Frames
           /\ \A k \in 1..Len(selected) :
                  \E x \in 0..(stride - 1) :
                      \A y \in 0..(Frames - 1) : \A i \in 0..(Dirs - 1) :
                          PlacesOf(result.v.image,
                                   ColourOf(selected[k].name, y * Dirs + i + 1))
                              = {<<x + i * stride, y>>}

\* Every suffix of extract is the suffix of a state and no two selected
\* states have the same suffix
OneStatePerName ==
    LET selected == SelectedStates(operation.self, StatesOf(input)) IN
    /\ \A n \in 1..Len(operation.self.extract) :
           \E k \in 1..Len(selected) :
               SuffixOf(selected[k].name) = operation.self.extract[n]
    /\ \A j, k \in 1..Len(selected) :
           SuffixOf(selected[j].name) = SuffixOf(selected[k].name) => j = k

\* What the code does: the images are where C24 says when the selected
\* states are as many as the names of extract and of the bespoke states
\* found; with four dirs and fewer states it aborts, with more states it
\* paints one image over another
PaintAsCoded ==
    (ReconstructFinished /\ result.tag # "Err") =>
        LET selected == SelectedStates(operation.self, StatesOf(input))
            names == Cardinality(SeqSet(operation.self.extract) \cup NamesOf(selected))
        IN
        /\ (Dirs = 1 \/ names <= Len(selected)) => result.tag = "Ok"
        /\ (Dirs = 4 /\ names > Len(selected)) => result = Panicked
        /\ result.tag = "Ok" =>
               /\ result.v.image.w = Len(selected) * Dirs
               /\ result.v.image.h = Frames
               /\ \A k \in 1..Len(selected) :
                      \A y \in 0..(Frames - 1) : \A i \in 0..(Dirs - 1) :
                          (names = Len(selected) \/ Dirs = 1) =>
                              \E x \in 0..(Len(selected) - 1) :
                                  PlacesOf(result.v.image,
                                           ColourOf(selected[k].name, y * Dirs + i + 1))
                                      = {<<x + i * names, y>>}

\* extract lists "9", the icon has "0" and "1" with four dirs: the atlas
\* is 8 wide, the stride is 3, and the copy to column 10 aborts
StrideAbort ==
    /\ ReconstructFinished
    /\ operation.self = [extract |-> <<<<"0">>, <<"9">>, <<"1">>>>, bespoke |-> None,
                         set |-> None]
    /\ [k \in 1..Len(StatesOf(input)) |-> StatesOf(input)[k].name] = <<<<"0">>, <<"1">>>>
    /\ Dirs = 4
    /\ result = Panicked

\* The states "a-0", "0", "1" with four dirs and extract "0", "1": three
\* states, a stride of 2, and direction 1 of "a-0" is painted over by "1"
StrideOverlap ==
    /\ ReconstructGave
    /\ operation.self = [extract |-> <<<<"0">>, <<"1">>>>, bespoke |-> None, set |-> None]
    /\ [k \in 1..Len(StatesOf(input)) |-> StatesOf(input)[k].name]
           = <<<<"a", "-", "0">>, <<"0">>, <<"1">>>>
    /\ Dirs = 4
    /\ Frames = 1
    /\ PlacesOf(result.v.image, ColourOf(<<"a", "-", "0">>, 2)) = {}

-----------------------------------------------------------------------------
(* The layout of the images of an icon state                               *)

\* The state of an adjacency as C25 has it before dedupe_frames: image
\* f * dirs + i is frame f of output direction i
FrameMajorState(self, assembled, adjacency, num_frames) ==
    LET dirs == Len(output_vec(self.direction_strategy)) IN
    [name |-> StateName(self, adjacency),
     dirs |-> dirs,
     frames |-> num_frames,
     images |-> [n \in 1..(dirs * num_frames) |->
                    C10_DirectionFrames(self, assembled, adjacency, ((n - 1) % dirs) + 1)
                        [((n - 1) \div dirs) + 1]],
     delay |-> IF self.animation.some
               THEN SomeDelay(repeat_for(self.animation.v.delays, num_frames))
               ELSE NoDelay,
     rewind |-> IF self.animation.some /\ self.animation.v.rewind.some
                THEN self.animation.v.rewind.v ELSE FALSE]

\* C25: the state Slice builds for an adjacency has dirs = |output_vec()|,
\* frames = num_frames and dirs * frames images, image f * dirs + i being
\* frame f of output direction outDirs[i]; the state it emits is that
\* state after dedupe_frames, and still has dirs * frames images and,
\* when it has delays, as many delays as frames.
C25_FrameMajorImages ==
    SliceSucceeded =>
        LET self == operation.self
            st == AdjacencyStates
            num_frames == input.img.h \div self.icon_size.y
            generated == generate_corners(self, input.img).v
            assembled == generate_icons(self, generated.corners, generated.prefabs,
                                        num_frames, output_adjacencies(self.output_type))
            adjacencies == SelectSeq(output_adjacencies(self.output_type),
                                     has_no_orphaned_corner)
        IN
        /\ Len(st) = Len(adjacencies)
        /\ \A k \in 1..Len(st) :
               /\ st[k] = dedupe_frames(FrameMajorState(self, assembled, adjacencies[k],
                                                        num_frames))
               /\ Len(st[k].images) = st[k].dirs * st[k].frames
               /\ st[k].dirs = Len(output_vec(self.direction_strategy))
               /\ st[k].delay.some => Len(st[k].delay.v) = st[k].frames

\* Slice cut the four directions of a two-frame atlas whose pixels all
\* differ: the state of adjacency 0 has 8 images, the two frames of a
\* direction four images apart
C25_Witness ==
    /\ SliceSucceeded
    /\ operation.self.output_type = "Cardinal"
    /\ operation.self.direction_strategy = "Cardinals"
    /\ operation.self.animation = Some([delays |-> <<1, 2>>, rewind |-> None])
    /\ input.img.kind = "unique"
    /\ input.img.h = 2 * operation.self.icon_size.y
    /\ AdjacencyStates[1].dirs = 4
    /\ AdjacencyStates[1].frames = 2
    /\ Len(AdjacencyStates[1].images) = 8
    /\ AdjacencyStates[1].delay = SomeDelay(<<1, 2>>)
    /\ AdjacencyStates[1].images[1] # AdjacencyStates[1].images[2]
    /\ AdjacencyStates[1].images[1] # AdjacencyStates[1].images[5]

\* Slice cut a two-frame atlas whose frames are the same: dedupe_frames
\* left one frame of four directions with the delays added up
FramesFolded ==
    /\ SliceSucceeded
    /\ operation.self.direction_strategy = "Cardinals"
    /\ operation.self.animation = Some([delays |-> <<1, 2>>, rewind |-> None])
    /\ input.img.kind = "static"
    /\ input.img.h = 2 * operation.self.icon_size.y
    /\ AdjacencyStates[1].frames = 1
    /\ Len(AdjacencyStates[1].images) = 4
    /\ AdjacencyStates[1].delay = SomeDelay(<<3>>)

-----------------------------------------------------------------------------
\* Slice has cut its corners and prefabs out of an atlas whose pixels all
\* differ: the pixel at (x, y) has the value y * width + x
SliceCut ==
    /\ operation.kind = "BitmaskSlice"
    /\ pc = "output" \/ (pc = "done" /\ result.tag = "Ok")
    /\ input.img.kind = "unique"

\* The places of the atlas the pixels of a cut image come from
SourceOf(img, cut) ==
    {<<get_pixel(cut, i, j) % img.w, get_pixel(cut, i, j) \div img.w>> :
        i \in 0..(cut.w - 1), j \in 0..(cut.h - 1)}

Rect(x, y, width, height) == (x..(x + width - 1)) \X (y..(y + height - 1))

\* The tile of input direction number d, column j and frame f
TileRect(self, d, j, f) ==
    Rect((d * (PositionsCount(self.positions) + PrefabsCount(self.prefabs)) + j)
             * self.icon_size.x,
         f * self.icon_size.y, self.icon_size.x, self.icon_size.y)

\* The columns of the atlas: those of positions, then those of prefabs
ColumnsOf(self) == 0..(PositionsCount(self.positions) + PrefabsCount(self.prefabs) - 1)

\* C26: the tile of input direction d, column j and frame f starts at
\* ((d * (P + F) + j) * icon_size.x, f * icon_size.y); different tiles do
\* not meet and lie inside the atlas of the validated width; the four
\* corners cut out of a tile do not meet and cover it exactly, no side
\* span ending before it starts, cut_pos lying inside the icon; a prefab
\* is its whole tile.
C26_AtlasGeometry ==
    SliceCut =>
        LET self == operation.self
            img == input.img
            num_frames == img.h \div self.icon_size.y
            generated == generate_corners(self, img).v
            directions == input_vec(self.direction_strategy)
            tiles == (1..Len(directions)) \X ColumnsOf(self) \X (0..(num_frames - 1))
        IN
        /\ \A tile \in tiles :
               /\ TileRect(self, tile[1] - 1, tile[2], tile[3])
                      \subseteq Rect(0, 0, img.w, img.h)
               /\ \A other \in tiles :
                      tile # other =>
                          TileRect(self, tile[1] - 1, tile[2], tile[3])
                              \cap TileRect(self, other[1] - 1, other[2], other[3]) = {}
        /\ \A j \in ColumnsOf(self), f \in 0..(num_frames - 1) :
               TileRect(self, 0, j, f)
                   = Rect(j * self.icon_size.x, f * self.icon_size.y,
                          self.icon_size.x, self.icon_size.y)
        /\ \A side \in {"North", "South", "East", "West"} :
               get_side_info(self, side).start <= get_side_info(self, side).end
        /\ \A d \in 1..Len(directions), f \in 1..num_frames :
               /\ \A corner_type \in DOMAIN generated.corners[directions[d]] :
                      LET cut == generated.corners[directions[d]][corner_type]
                          tile == TileRect(self, d - 1, self.positions[corner_type], f - 1)
                      IN
                      /\ UNION {SourceOf(img, cut[corner][f]) : corner \in Corners} = tile
                      /\ \A c1, c2 \in Corners :
                             c1 # c2 => SourceOf(img, cut[c1][f])
                                            \cap SourceOf(img, cut[c2][f]) = {}
               /\ \A adjacency \in DOMAIN generated.prefabs[directions[d]] :
                      SourceOf(img, generated.prefabs[directions[d]][adjacency][f])
                          = TileRect(self, d - 1, self.prefabs.v[adjacency], f - 1)

\* Slice cut an atlas of four directions, four corner columns and a prefab
\* column, two frames of icons 3 by 2 cut at (2, 1): the north-east corner
\* of the Concave tile of direction number 1, frame 1, is the one pixel at
\* (20, 2), and the prefab of direction number 3 starts at (57, 2)
C26_Witness ==
    /\ SliceCut
    /\ operation.self.direction_strategy = "Cardinals"
    /\ operation.self.icon_size = Point(3, 2)
    /\ operation.self.cut_pos = Point(2, 1)
    /\ operation.self.prefabs.some
    /\ input.img.h = 4
    /\ input.img.w = 60
    /\ LET generated == generate_corners(operation.self, input.img).v IN
       /\ SourceOf(input.img, generated.corners["N"]["Concave"]["NorthEast"][2])
              = {<<20, 2>>}
       /\ SourceOf(input.img, generated.prefabs["W"][0][2]) = Rect(57, 2, 3, 2)

-----------------------------------------------------------------------------
(* Claims about the directional-visibility slicer                          *)

DirVisDone == operation.kind = "BitmaskDirectionalVis" /\ pc = "done"
DirVisSucceeded == DirVisDone /\ result.tag = "Ok"

\* The slicer gave icon states for an atlas of the expected width
DirVisCut ==
    /\ DirVisSucceeded
    /\ input.img.w = slice_expected_width(operation.self.bitmask_slice_config)

\* C29: the directional-visibility slicer makes the width check of Slice:
\* on an atlas whose width is not D * (P + F) * icon_size.x it returns the
\* width error Slice returns for the configuration and the image, and it
\* gives icon states only for atlases of the expected width.
C29_DirVisWidthCheck ==
    (DirVisDone /\ input.kind = "DynamicImage") =>
        LET checked == slice_check_width(operation.self.bitmask_slice_config, input.img) IN
        /\ checked.tag = "Err" => result = checked
        /\ result.tag = "Ok" =>
               input.img.w = slice_expected_width(operation.self.bitmask_slice_config)

\* What the code does: whatever the width of the atlas, no width error is
\* returned
NoWidthErrorFromDirVis ==
    DirVisDone => ~(result.tag = "Err" /\ result.err[1] \in WidthErrors)

\* The Scenario D atlas, one column too wide, is cut into 68 states
WrongWidthCut ==
    /\ DirVisSucceeded
    /\ operation.self.bitmask_slice_config = DirVisBase("Cardinal", "Standard")
    /\ input.img.w = 10
    /\ slice_check_width(operation.self.bitmask_slice_config, input.img)
           = Err(<<"ImageWidthOffByOne", 8, 10, 4, 5>>)
    /\ Len(result.v.icon.states) = 68

\* What the slicer computed on the way to its result
DirVisConfig == operation.self.bitmask_slice_config
DirVisFrames == input.img.h \div DirVisConfig.icon_size.y
DirVisDirs == Len(output_vec(DirVisConfig.direction_strategy))
DirVisAdjacencies == states_to_gen(DirVisConfig)
DirVisAssembled ==
    LET generated == generate_corners(DirVisConfig, input.img).v IN
    generate_icons(DirVisConfig, generated.corners, generated.prefabs, DirVisFrames,
                   output_adjacencies_table[CornerSetIndex(DirVisConfig.output_type)])

\* The state emitted for adjacency number k and side number s
SideState(k, s) == result.v.icon.states[4 * (k - 1) + s]

\* The state emitted for corner number c
CornerState(c) == result.v.icon.states[4 * Len(DirVisAdjacencies) + c]

SideStateName(adjacency, side) ==
    pretty_print_table[adjacency + 1] \o <<"-">> \o to_string(side_byond_dir(side))

\* C27: for every adjacency A with no orphaned corner, every Side and every
\* output direction d, the image of state "{A.pretty_print()}-{Side.byond_dir()}"
\* for direction d is cut from the composed tile Slice uses for state A and
\* direction d; under CardinalsRotated that is the standard-direction tile
\* of A.rotate_to(d).  Stated on atlases of one frame, where a state has
\* one image for each direction, and of the expected width.
C27_SameSourceTile ==
    (DirVisCut /\ DirVisFrames = 1) =>
        \A k \in 1..Len(DirVisAdjacencies), s \in 1..Len(side_dmi_cardinals),
           i \in 1..DirVisDirs :
            LET adjacency == DirVisAdjacencies[k]
                side == side_dmi_cardinals[s]
            IN
            /\ SideState(k, s).name = SideStateName(adjacency, side)
            /\ SideState(k, s).images[i] =
                   cut_image(operation.self,
                             C10_DirectionFrames(DirVisConfig, DirVisAssembled, adjacency, i)[1],
                             side_rectangle(operation.self, side))

\* What the code does: the tile of direction d is looked up with A itself,
\* under CardinalsRotated in the standard direction
SourceTileAsCoded ==
    (DirVisCut /\ DirVisFrames = 1) =>
        \A k \in 1..Len(DirVisAdjacencies), s \in 1..Len(side_dmi_cardinals),
           i \in 1..DirVisDirs :
            LET adjacency == DirVisAdjacencies[k]
                side == side_dmi_cardinals[s]
            IN
            /\ SideState(k, s).name = SideStateName(adjacency, side)
            /\ SideState(k, s).images[i] =
                   cut_image(operation.self,
                             slice_next_frame_unrotated(
                                 DirVisConfig, DirVisAssembled, adjacency,
                                 output_vec(DirVisConfig.direction_strategy)[i]).v[1],
                             side_rectangle(operation.self, side))

\* Under the other direction strategies the two slicers agree on the tile
SourceTileWithoutRotation ==
    (DirVisCut /\ DirVisConfig.direction_strategy # "CardinalsRotated")
        => C27_SameSourceTile

\* Under CardinalsRotated the four directions of state "1-1" (adjacency N,
\* side North) hold the same image, where Slice has the tiles of N, S, E, W
UnrotatedSideState ==
    /\ DirVisCut
    /\ DirVisFrames = 1
    /\ DirVisConfig.direction_strategy = "CardinalsRotated"
    /\ DirVisConfig.output_type = "Cardinal"
    /\ input.img.kind = "unique"
    /\ SideState(2, 2).name = <<"1", "-", "1">>
    /\ \A i \in 1..4 : SideState(2, 2).images[i] = SideState(2, 2).images[1]
    /\ DirVisAssembled[STANDARD][rotate_to(N, "N")] # DirVisAssembled[STANDARD][N]
    /\ SideState(2, 2).images[2] #
           cut_image(operation.self, DirVisAssembled[STANDARD][rotate_to(N, "N")][1],
                     side_rectangle(operation.self, "North"))

\* The tiles a state is cut from, direction by direction, as the code
\* looks them up
DirVisSideTiles(adjacency) ==
    Vec([i \in 1..DirVisDirs |->
            slice_next_frame_unrotated(DirVisConfig, DirVisAssembled, adjacency,
                                       output_vec(DirVisConfig.direction_strategy)[i]).v])

DirVisCornerTiles ==
    Vec([i \in 1..DirVisDirs |->
            DirVisAssembled[IF DirVisConfig.direction_strategy = "CardinalsRotated"
                            THEN STANDARD
                            ELSE output_vec(DirVisConfig.direction_strategy)[i]][CARDINALS]])

DirVisDelay ==
    IF DirVisConfig.animation.some
    THEN SomeDelay(repeat_for(DirVisConfig.animation.v.delays, DirVisFrames))
    ELSE NoDelay

\* The state whose image f * dirs + i is frame f of direction i of the
\* tiles cut by the rectangle, after dedupe_frames
FrameMajorCut(state, tiles, rectangle) ==
    dedupe_frames([state EXCEPT
        !.dirs = DirVisDirs,
        !.frames = DirVisFrames,
        !.delay = DirVisDelay,
        !.images = [n \in 1..(DirVisDirs * DirVisFrames) |->
                       cut_image(operation.self,
                                 tiles[((n - 1) % DirVisDirs) + 1]
                                      [((n - 1) \div DirVisDirs) + 1],
                                 rectangle)]])

\* The state whose image i * frames + f is frame f of direction i
DirectionMajorCut(state, tiles, rectangle) ==
    dedupe_frames([state EXCEPT
        !.dirs = DirVisDirs,
        !.frames = DirVisFrames,
        !.delay = DirVisDelay,
        !.images = [n \in 1..(DirVisDirs * DirVisFrames) |->
                       cut_image(operation.self,
                                 tiles[((n - 1) \div DirVisFrames) + 1]
                                      [((n - 1) % DirVisFrames) + 1],
                                 rectangle)]])

\* C28: every side state and every innercorner state stores its images in
\* the container order of Slice: with dirs = |output_vec()| and frames =
\* num_frames, image f * dirs + i is frame f of output direction
\* outDirs[i]; the emitted state is that state after dedupe_frames.
\* Stated on atlases of the expected width.
C28_ContainerOrder ==
    DirVisCut =>
        /\ \A k \in 1..Len(DirVisAdjacencies), s \in 1..Len(side_dmi_cardinals) :
               SideState(k, s) =
                   FrameMajorCut(SideState(k, s), DirVisSideTiles(DirVisAdjacencies[k]),
                                 side_rectangle(operation.self, side_dmi_cardinals[s]))
        /\ \A c \in 1..Len(CornerSeq) :
               CornerState(c) =
                   FrameMajorCut(CornerState(c), DirVisCornerTiles,
                                 corner_rectangle(operation.self, CornerSeq[c]))

\* What the code does: the frames of a direction are pushed together,
\* direction after direction
OrderAsCoded ==
    DirVisCut =>
        /\ \A k \in 1..Len(DirVisAdjacencies), s \in 1..Len(side_dmi_cardinals) :
               SideState(k, s) =
                   DirectionMajorCut(SideState(k, s), DirVisSideTiles(DirVisAdjacencies[k]),
                                     side_rectangle(operation.self, side_dmi_cardinals[s]))
        /\ \A c \in 1..Len(CornerSeq) :
               CornerState(c) =
                   DirectionMajorCut(CornerState(c), DirVisCornerTiles,
                                     corner_rectangle(operation.self, CornerSeq[c]))

\* With one direction or one frame the two orders are the same
OrderOfOneDirOrFrame ==
    (DirVisCut /\ (DirVisDirs = 1 \/ DirVisFrames = 1)) => C28_ContainerOrder

\* Four directions and two frames: the second image of state "1-1" is
\* frame 2 of the first direction, not frame 1 of the second direction
DirectionMajorSideState ==
    /\ DirVisCut
    /\ DirVisConfig.direction_strategy = "Cardinals"
    /\ DirVisFrames = 2
    /\ input.img.kind = "unique"
    /\ SideState(2, 2).name = <<"1", "-", "1">>
    /\ SideState(2, 2).dirs = 4
    /\ SideState(2, 2).frames = 2
    /\ SideState(2, 2).images[2] =
           cut_image(operation.self, DirVisSideTiles(N)[1][2],
                     side_rectangle(operation.self, "North"))
    /\ SideState(2, 2).images[2] #
           cut_image(operation.self, DirVisSideTiles(N)[2][1],
                     side_rectangle(operation.self, "North"))

\* The same for the state "innercorner-5"
DirectionMajorCornerState ==
    /\ DirVisCut
    /\ DirVisConfig.direction_strategy = "Cardinals"
    /\ DirVisFrames = 2
    /\ input.img.kind = "unique"
    /\ CornerState(1).name = innercorner_text \o <<"-">> \o to_string(corner_byond_dir(CornerSeq[1]))
    /\ CornerState(1).images[2] =
           cut_image(operation.self, DirVisCornerTiles[1][2],
                     corner_rectangle(operation.self, CornerSeq[1]))
    /\ CornerState(1).images[2] #
           cut_image(operation.self, DirVisCornerTiles[2][1],
                     corner_rectangle(operation.self, CornerSeq[1]))

-----------------------------------------------------------------------------
(* rotate_to on the adjacencies of the output types, beside Slice under    *)
(* CardinalsRotated                                                        *)

\* The adjacencies of some output type
OutputAdjacencySet ==
    UNION {SeqSet(output_adjacencies_table[t]) : t \in 1..Len(CornerSetSeq)}

CallRotateTo ==
    /\ pc = "idle"
    /\ \E k \in 1..Len(dmi_cardinals) :
        \/ /\ First
           /\ \E a \in OutputAdjacencySet :
                  Call("rotate_to", <<a, dmi_cardinals[k]>>, rotate_to_table[a + 1][k])
        \/ /\ Chained("rotate_to")
           /\ calls[1].ret # Panic
           /\ Call("rotate_to", <<calls[1].ret, dmi_cardinals[k]>>,
                   rotate_to_table[calls[1].ret + 1][k])

RotatedRuns ==
    {run \in ContentRunsOf(CornerSets, {None}, {<<"unique", 1>>}) :
        run.self.direction_strategy = "CardinalsRotated" /\ ~run.self.output_name.some}

InitRotate == InitAdj \/ InitSliceWith(RotatedRuns)

NextRotate ==
    \/ CallRotateTo
    \/ SliceValidate
    \/ SliceGenerate
    \/ SliceOutput

SpecRotate == InitRotate /\ [][NextRotate]_vars

\* The adjacency is one of the states Slice generates for the output type
GeneratedFor(t, a) ==
    a \in SeqSet(output_adjacencies_table[t]) /\ no_orphaned_corner_table[a + 1]

\* rotate_to has been called on a and d
Rotated(a, d) ==
    Len(calls) >= 1 /\ calls[1].fn = "rotate_to" /\ calls[1].arg = <<a, d>>

\* The OR of the rotated single bits of an adjacency
RotatedBits(a, d) ==
    PackBits(UNION {BitsOf(rotate_dir(FlagOrder[i], d)) :
                        i \in {j \in 1..Len(FlagOrder) : contains(a, FlagOrder[j])}})

\* The closure of one output type under rotate_to
ClosedUnderRotation(t) ==
    \A i \in 1..Len(calls) :
        (calls[i].fn = "rotate_to" /\ GeneratedFor(t, calls[i].arg[1])) =>
            /\ calls[i].ret # Panic
            /\ GeneratedFor(t, calls[i].ret)

\* C30: for every output type, every adjacency A of its
\* output_adjacencies() with no orphaned corner and every d of S, N, E, W,
\* A.rotate_to(d) is defined, also when A carries INNER_EDGE or OUTER_EDGE,
\* has no orphaned corner and is a key of the assembled standard-direction
\* map, so that Slice under CardinalsRotated never aborts on its lookup;
\* rotate_to is the OR of the rotated single bits and the identity on the
\* empty adjacency, rotate_to(E) twice is rotate_to(N), and rotate_to(E)
\* then rotate_to(W) is the identity.
C30_RotationClosure ==
    /\ \A t \in 1..Len(CornerSetSeq) : ClosedUnderRotation(t)
    /\ (SliceDone /\ operation.self.direction_strategy = "CardinalsRotated"
            /\ input.kind = "DynamicImage"
            /\ slice_check_width(operation.self, input.img).tag = "Ok")
           => result.tag = "Ok"
    /\ \A i \in 1..Len(calls) :
           (calls[i].fn = "rotate_to"
                /\ \E t \in 1..Len(CornerSetSeq) : GeneratedFor(t, calls[i].arg[1])) =>
               /\ calls[i].arg[1] = 0 => calls[i].ret = 0
               /\ calls[i].arg[1] # 0 =>
                      calls[i].ret = RotatedBits(calls[i].arg[1], calls[i].arg[2])
    /\ (Len(calls) = 2 /\ calls[2].fn = "rotate_to"
            /\ \E t \in 1..Len(CornerSetSeq) : GeneratedFor(t, calls[1].arg[1])) =>
           /\ (calls[1].arg[2] = "E" /\ calls[2].arg[2] = "E") =>
                  calls[2].ret = rotate_to(calls[1].arg[1], "N")
           /\ (calls[1].arg[2] = "E" /\ calls[2].arg[2] = "W") =>
                  calls[2].ret = calls[1].arg[1]

\* What holds: Cardinal and StandardDiagonal are closed under rotate_to
ClosedWithoutEdges ==
    \A t \in 1..Len(CornerSetSeq) :
        CornerSetSeq[t] \in {"Cardinal", "StandardDiagonal"} => ClosedUnderRotation(t)

\* rotate_to aborts exactly on the adjacencies with an edge bit, rotated
\* to N, E or W
AbortsOnEdgeBits ==
    \A i \in 1..Len(calls) :
        calls[i].fn = "rotate_to" =>
            (calls[i].ret = Panic <=>
                /\ calls[i].arg[2] # "S"
                /\ (contains(calls[i].arg[1], INNER_EDGE)
                        \/ contains(calls[i].arg[1], OUTER_EDGE)))

\* Where rotate_to is defined it is the OR of the rotated bits, and the
\* two identities hold
IdentitiesWhereDefined ==
    /\ \A i \in 1..Len(calls) :
           (calls[i].fn = "rotate_to" /\ calls[i].ret # Panic) =>
               calls[i].ret = IF calls[i].arg[1] = 0 THEN 0
                              ELSE RotatedBits(calls[i].arg[1], calls[i].arg[2])
    /\ (Len(calls) = 2 /\ calls[2].fn = "rotate_to" /\ calls[2].ret # Panic) =>
           /\ (calls[1].arg[2] = "E" /\ calls[2].arg[2] = "E") =>
                  calls[2].ret = rotate_to(calls[1].arg[1], "N")
           /\ (calls[1].arg[2] = "E" /\ calls[2].arg[2] = "W") =>
                  calls[2].ret = calls[1].arg[1]

\* Slice under CardinalsRotated succeeds for Cardinal and StandardDiagonal
RotatedSliceWithoutEdges ==
    (SliceDone /\ operation.self.output_type \in {"Cardinal", "StandardDiagonal"}
        /\ input.kind = "DynamicImage"
        /\ slice_check_width(operation.self, input.img).tag = "Ok")
       => result.tag = "Ok"

\* An adjacency of CornerDiagonal with no orphaned corner that carries
\* INNER_EDGE, rotated to E: the abort
RotateToAbort ==
    \E a \in OutputAdjacencySet :
        /\ Rotated(a, "E")
        /\ GeneratedFor(CornerSetIndex("CornerDiagonal"), a)
        /\ contains(a, INNER_EDGE)
        /\ calls[1].ret = Panic

\* Slice with output type CornerDiagonal under CardinalsRotated aborts
RotatedCornerDiagonalAbort ==
    /\ SliceDone
    /\ operation.self.output_type = "CornerDiagonal"
    /\ operation.self.direction_strategy = "CardinalsRotated"
    /\ slice_check_width(operation.self, input.img).tag = "Ok"
    /\ result = Panicked

====
